---- MODULE Spec2Model ----
(***************************************************************************)
(* Medimate AI service: the entity extraction, normalization and           *)
(* form-mapping pipeline (medimate-ai-service).                            *)
(*                                                                         *)
(* Conventions of the model                                                *)
(*   - a confidence is an integer number of thousandths (0.85 is 850);     *)
(*   - a phrase (a term, a synonym, an entity text) is the sequence of its *)
(*     whitespace-separated words, so that str.split() is the identity on  *)
(*     it and ' '.join() is concatenation;                                 *)
(*   - a Python dict that is iterated is a sequence in insertion order, a  *)
(*     dict that is only looked up is a function;                          *)
(*   - None is the value Null.                                             *)
(***************************************************************************)
EXTENDS Integers, Sequences, FiniteSets, TLC

VARIABLES
    stage,              \* position of the component under analysis
    \* MedicalTerminologyManager (the Vocabulary Store)
    terms,              \* self.terms, in insertion order
    synonyms,           \* self.synonyms
    abbreviations,      \* self.abbreviations
    added,              \* number of add_term or add_code calls made after construction
    \* MedicalNLPEngine._process_text_sync / MedicalNLPService
    entities,           \* the candidate list handed to _normalize_entities
    normalized,         \* the list _normalize_entities returns
    enhanced,           \* the list _enhance_entities_with_terminology returns
    \* abbreviation expansion
    manager,            \* whose expander runs: "engine" or "terminology"
    text,               \* the input text, as its tokens
    expanded,           \* expand(text)
    reexpanded,         \* expand(expand(text))
    \* MedicalFormMapper.map_to_form
    extracted_fields,   \* the extracted_fields argument, in insertion order
    form_type,          \* the form_type argument
    form_result,        \* what the call gave its caller
    \* MedicalFieldExtractor._extract_fields_sync
    field_types,        \* the field_types argument
    matches,            \* what re.finditer yields, per field type and pattern
    extraction,         \* 'extracted_fields' of the result
    \* MedicalCodeManager
    code_table,         \* self.codes, the code objects in insertion order
    search_index,       \* self.search_index, in insertion order
    request,            \* the operation called and its arguments
    response,           \* what the operation returned
    \* MedicalNLPEngine shared by concurrent process_medical_text calls
    adapter,            \* self.nlp_model: "absent" (None) or "loaded"
    calls,              \* per call: its position, document and local values
    \* MedicalNLPEngine and MedicalNLPService from their construction on
    engine,             \* the initialization task and the engine's dictionaries
    is_initialized,     \* MedicalNLPService.is_initialized
    requests            \* per call: its position and what it read of the engine

vocabVars == <<terms, synonyms, abbreviations, added>>
pipeVars == <<entities, normalized, enhanced>>
expandVars == <<manager, text, expanded, reexpanded>>
formVars == <<extracted_fields, form_type, form_result>>
fieldVars == <<field_types, matches, extraction>>
codeVars == <<code_table, search_index, request, response>>
callVars == <<adapter, calls>>
bootVars == <<engine, is_initialized, requests>>
vars == <<stage, vocabVars, pipeVars, expandVars, formVars, fieldVars, codeVars, callVars, bootVars>>

Null == "None"

Max(a, b) == IF a >= b THEN a ELSE b
Min(a, b) == IF a <= b THEN a ELSE b

Range(s) == {s[i] : i \in 1..Len(s)}

\* All sequences over S of length at most n.
SeqsUpTo(S, n) == UNION {[1..k -> S] : k \in 0..n}

(***************************************************************************)
(* Bounds of the model.                                                    *)
(***************************************************************************)
MaxPos == 3         \* entity spans lie in 0..MaxPos
MaxCands == 3       \* candidates handed to the resolver in one run
MaxDocCands == 2    \* candidates the extractors find in one document
MaxAddTerm == 1     \* add_term calls after construction

(***************************************************************************)
(* MedicalNLPEngine: extractor confidences.                                *)
(***************************************************************************)
ConfSpacyEntity == 800
ConfSpacyPattern == 700
ConfDosage == 900
ConfBloodPressure == 950
ConfTemperature == 900
ConfAge == 950
ConfMainTerm == 850
ConfSynonym == 800

(***************************************************************************)
(* MedicalNLPEngine._normalize_entities                                    *)
(***************************************************************************)

\* (variant of InsertByStart that orders candidates of equal start by the
\* identity of the objects instead of keeping their order in the list)
RECURSIVE InsertByStartThenIdentity(_, _)
InsertByStartThenIdentity(sorted, e) ==
    IF sorted = <<>> THEN <<e>>
    ELSE IF \/ Head(sorted).start < e.start
            \/ Head(sorted).start = e.start /\ Head(sorted).id < e.id
         THEN <<Head(sorted)>> \o InsertByStartThenIdentity(Tail(sorted), e)
         ELSE <<e>> \o sorted

\* list.sort(key=lambda x: x.start): a stable sort, written as the insertion
\* of each element after every element whose start is not greater.
RECURSIVE InsertByStart(_, _)
InsertByStart(sorted, e) ==
    IF sorted = <<>> THEN <<e>>
    ELSE IF Head(sorted).start <= e.start
         THEN <<Head(sorted)>> \o InsertByStart(Tail(sorted), e)
         ELSE <<e>> \o sorted

RECURSIVE SortByStart(_)
SortByStart(s) ==
    IF s = <<>> THEN <<>>
    ELSE InsertByStart(SortByStart(SubSeq(s, 1, Len(s) - 1)), s[Len(s)])

\* entity.start < existing.end and entity.end > existing.start
Overlaps(entity, existing) ==
    entity.start < existing.end /\ entity.end > existing.start

\* Index of the first element of `list` that `entity` overlaps, 0 if none:
\* the inner for loop, which breaks at the first overlap.
FirstOverlap(list, entity) ==
    LET hits == {i \in 1..Len(list) : Overlaps(entity, list[i])}
    IN  IF hits = {} THEN 0 ELSE CHOOSE i \in hits : \A j \in hits : i <= j

\* list.remove(list[i])
RemoveAt(list, i) == SubSeq(list, 1, i - 1) \o SubSeq(list, i + 1, Len(list))

\* (variant of Accept that puts the winning candidate first in the list)
AcceptInFront(acc, entity) ==
    LET i == FirstOverlap(acc, entity)
    IN  IF i = 0 THEN Append(acc, entity)
        ELSE IF entity.confidence > acc[i].confidence
             THEN <<entity>> \o RemoveAt(acc, i)
             ELSE acc

\* (variant of Accept in which a candidate of equal confidence also replaces
\* the accepted entity)
AcceptOnTie(acc, entity) ==
    LET i == FirstOverlap(acc, entity)
    IN  IF i = 0 THEN Append(acc, entity)
        ELSE IF entity.confidence >= acc[i].confidence
             THEN Append(RemoveAt(acc, i), entity)
             ELSE acc

\* (variant of Accept that appends the winning candidate without removing the
\* entity it beats)
AcceptWithoutRemove(acc, entity) ==
    LET i == FirstOverlap(acc, entity)
    IN  IF i = 0 THEN Append(acc, entity)
        ELSE IF entity.confidence > acc[i].confidence
             THEN Append(acc, entity)
             ELSE acc

\* One iteration of the outer loop.
Accept(acc, entity) ==
    LET i == FirstOverlap(acc, entity)
    IN  IF i = 0 THEN Append(acc, entity)
        ELSE IF entity.confidence > acc[i].confidence
             THEN Append(RemoveAt(acc, i), entity)
             ELSE acc

RECURSIVE ResolveLoop(_, _)
ResolveLoop(rest, acc) ==
    IF rest = <<>> THEN acc
    ELSE ResolveLoop(Tail(rest), Accept(acc, Head(rest)))

NormalizeEntities(list) == ResolveLoop(SortByStart(list), <<>>)

(***************************************************************************)
(* MedicalTerminologyManager: the Vocabulary Store.                        *)
(***************************************************************************)

\* str.lower() on the words the model uses: only these have upper-case letters.
\* "I-dotted" stands for the one-character word U+0130 (capital I with dot
\* above), whose lower() is the two characters U+0069 U+0307, "i-dotted".
LowerWord(w) ==
    CASE w = "Sepsis" -> "sepsis"
      [] w = "I-dotted" -> "i-dotted"
      [] w = "Normal" -> "normal"
      [] w = "Hypertension" -> "hypertension"
      [] OTHER -> w

Lower(phrase) == [i \in 1..Len(phrase) |-> LowerWord(phrase[i])]

MedicalTerm(term, category, syns, abbrevs, codes) ==
    [term |-> term, category |-> category, synonyms |-> syns,
     abbreviations |-> abbrevs, codes |-> codes]

\* The terms _initialize_basic_terminology adds, in its order.
BasicTerms == <<
    MedicalTerm(<<"hypertension">>, "cardiovascular",
        << <<"high", "blood", "pressure">>, <<"elevated", "blood", "pressure">> >>,
        << <<"htn">>, <<"hbp">> >>, <<"I10">>),
    MedicalTerm(<<"diabetes", "mellitus">>, "endocrine",
        << <<"diabetes">>, <<"diabetic", "condition">> >>,
        << <<"dm">>, <<"diabetes">> >>, <<"E11">>),
    MedicalTerm(<<"myocardial", "infarction">>, "cardiovascular",
        << <<"heart", "attack">>, <<"cardiac", "arrest">>, <<"mi">> >>,
        << <<"mi">>, <<"ami">> >>, <<"I21">>),
    MedicalTerm(<<"pneumonia">>, "respiratory",
        << <<"lung", "infection">>, <<"respiratory", "infection">> >>,
        << <<"pna">> >>, <<"J18">>),
    MedicalTerm(<<"chronic", "obstructive", "pulmonary", "disease">>, "respiratory",
        << <<"copd">>, <<"chronic", "bronchitis">>, <<"emphysema">> >>,
        << <<"copd">> >>, <<"J44">>),
    MedicalTerm(<<"metformin">>, "medication",
        << <<"glucophage">>, <<"fortamet">>, <<"glumetza">> >>,
        << <<"met">> >>, <<>>),
    MedicalTerm(<<"lisinopril">>, "medication",
        << <<"prinivil">>, <<"zestril">> >>, << <<"acei">> >>, <<>>),
    MedicalTerm(<<"atorvastatin">>, "medication",
        << <<"lipitor">> >>, << <<"statin">> >>, <<>>),
    MedicalTerm(<<"metoprolol">>, "medication",
        << <<"lopressor">>, <<"toprol">> >>,
        << <<"bb">>, <<"beta", "blocker">> >>, <<>>),
    MedicalTerm(<<"amlodipine">>, "medication",
        << <<"norvasc">> >>,
        << <<"ccb">>, <<"calcium", "channel", "blocker">> >>, <<>>),
    MedicalTerm(<<"heart">>, "anatomy",
        << <<"cardiac">>, <<"cardio">> >>, << <<"cardiac">> >>, <<>>),
    MedicalTerm(<<"lung">>, "anatomy",
        << <<"pulmonary">>, <<"respiratory">> >>,
        << <<"pulm">>, <<"resp">> >>, <<>>),
    MedicalTerm(<<"kidney">>, "anatomy",
        << <<"renal">>, <<"nephro">> >>, << <<"renal">> >>, <<>>),
    MedicalTerm(<<"liver">>, "anatomy",
        << <<"hepatic">>, <<"hepato">> >>, << <<"hepatic">> >>, <<>>)
    >>

\* dict[key] = value on a dict kept as a function
DictSet(d, key, value) ==
    [k \in DOMAIN d \cup {key} |-> IF k = key THEN value ELSE d[k]]

\* d[keys[1]] = value; d[keys[2]] = value; ... with each key lower-cased
RECURSIVE DictSetAll(_, _, _)
DictSetAll(d, keys, value) ==
    IF keys = <<>> THEN d
    ELSE DictSetAll(DictSet(d, Lower(Head(keys)), value), Tail(keys), value)

\* self.terms[term.term.lower()] = term on the insertion-ordered dict: a key
\* already present keeps its place.
TermKey(t) == Lower(t.term)

TermIndex(ts, key) ==
    LET hits == {i \in 1..Len(ts) : TermKey(ts[i]) = key}
    IN  IF hits = {} THEN 0 ELSE CHOOSE i \in hits : TRUE

TermsSet(ts, t) ==
    LET i == TermIndex(ts, TermKey(t))
    IN  IF i = 0 THEN Append(ts, t) ELSE [ts EXCEPT ![i] = t]

\* add_term on the store (terms, synonyms, abbreviations)
AddTermTo(store, t) ==
    [terms |-> TermsSet(store.terms, t),
     synonyms |-> DictSetAll(store.synonyms, t.synonyms, TermKey(t)),
     abbreviations |-> DictSetAll(store.abbreviations, t.abbreviations, TermKey(t))]

RECURSIVE AddAllTerms(_, _)
AddAllTerms(store, ts) ==
    IF ts = <<>> THEN store
    ELSE AddAllTerms(AddTermTo(store, Head(ts)), Tail(ts))

\* The store after MedicalTerminologyManager.__init__
EmptyDict == [k \in {} |-> Null]

InitialStore ==
    AddAllTerms([terms |-> <<>>, synonyms |-> EmptyDict, abbreviations |-> EmptyDict],
                BasicTerms)

\* _fuzzy_match: the (word set, term) pairs it scores, in its order: for each
\* term of self.terms the term key, then each of the term's synonyms.
RECURSIVE FuzzyCandidates(_)
FuzzyCandidates(ts) ==
    IF ts = <<>> THEN <<>>
    ELSE LET t == Head(ts)
         IN  <<[words |-> Range(TermKey(t)), match |-> t.term]>>
             \o [i \in 1..Len(t.synonyms) |->
                    [words |-> Range(Lower(t.synonyms[i])), match |-> t.term]]
             \o FuzzyCandidates(Tail(ts))

\* The loop of _fuzzy_match keeps a candidate when its score, overlap /
\* max(len, len), is above 0.5 and strictly above the best so far: the result
\* is the first candidate, in the loop's order, of the highest score above 0.5.
\* A score is compared as the fraction overlap / longest.
FuzzyOverlap(c, text_words) == Cardinality(text_words \cap c.words)
FuzzyLongest(c, text_words) == Max(Cardinality(text_words), Cardinality(c.words))

FuzzyBest(cands, text_words) ==
    LET Ov(i) == FuzzyOverlap(cands[i], text_words)
        Lg(i) == FuzzyLongest(cands[i], text_words)
        Above(i, j) == Ov(i) * Lg(j) > Ov(j) * Lg(i)     \* score i > score j
        kept == {i \in 1..Len(cands) :
                    /\ 2 * Ov(i) > Lg(i)
                    /\ \A j \in 1..Len(cands) : ~Above(j, i)
                    /\ \A j \in 1..(i - 1) : Above(i, j)}
    IN  IF kept = {} THEN 0 ELSE CHOOSE i \in kept : TRUE

\* None, where a phrase is expected (a phrase is never empty, and Python
\* takes None and the empty string alike in `if normalized_term:`)
NoTerm == <<>>

\* return best_match if best_score > 0.6 else None
FuzzyMatch(ts, phrase) ==
    LET cands == FuzzyCandidates(ts)
        text_words == Range(phrase)
        i == FuzzyBest(cands, text_words)
    IN  IF i # 0 /\ 5 * FuzzyOverlap(cands[i], text_words)
                     > 3 * FuzzyLongest(cands[i], text_words)
        THEN cands[i].match
        ELSE NoTerm

\* normalize_term
NormalizeTerm(ts, syns, abbrevs, phrase) ==
    LET text_lower == Lower(phrase)
        i == TermIndex(ts, text_lower)
    IN  IF i # 0 THEN ts[i].term
        ELSE IF text_lower \in DOMAIN syns THEN syns[text_lower]
        ELSE IF text_lower \in DOMAIN abbrevs THEN abbrevs[text_lower]
        ELSE FuzzyMatch(ts, text_lower)

\* get_medical_codes: the codes of self.terms[normalized_term] when the
\* normalized term is a key of self.terms, else the empty list.
GetMedicalCodes(ts, syns, abbrevs, phrase) ==
    LET normalized_term == NormalizeTerm(ts, syns, abbrevs, phrase)
        i == IF normalized_term = NoTerm THEN 0 ELSE TermIndex(ts, normalized_term)
    IN  IF i = 0 THEN <<>> ELSE ts[i].codes

\* validate_medical_term: self.terms[normalized] raises KeyError when the
\* normalized term is not a key, and the except clause answers
\* 'Validation error: ...'.  expected_category is Null when not given.
ValidateMedicalTerm(ts, syns, abbrevs, phrase, expected_category) ==
    LET normalized_term == NormalizeTerm(ts, syns, abbrevs, phrase)
        i == IF normalized_term = NoTerm THEN 0 ELSE TermIndex(ts, normalized_term)
    IN  IF normalized_term = NoTerm
        THEN [is_valid |-> FALSE, confidence |-> 0,
              message |-> "Term not recognized in medical vocabulary"]
        ELSE IF i = 0
        THEN [is_valid |-> FALSE, confidence |-> 0, message |-> "Validation error"]
        ELSE IF expected_category # Null /\ ts[i].category # expected_category
        THEN [is_valid |-> FALSE, confidence |-> 500,
              message |-> "Term found but belongs to another category",
              normalized_term |-> normalized_term, actual_category |-> ts[i].category]
        ELSE [is_valid |-> TRUE, confidence |-> 1000, normalized_term |-> normalized_term,
              category |-> ts[i].category, synonyms |-> ts[i].synonyms,
              codes |-> ts[i].codes]

(***************************************************************************)
(* MedicalNLPService._enhance_entities_with_terminology                    *)
(***************************************************************************)

\* One iteration: if normalize_term gives a term, set normalized_form and
\* multiply the confidence by 1.1.
EnhanceEntity(ts, syns, abbrevs, e) ==
    LET normalized_term == NormalizeTerm(ts, syns, abbrevs, e.text)
    IN  IF normalized_term # NoTerm
        THEN [e EXCEPT !.normalized_form = normalized_term,
                       !.confidence = (e.confidence * 11) \div 10]
        ELSE e

EnhanceEntities(ts, syns, abbrevs, list) ==
    [i \in 1..Len(list) |-> EnhanceEntity(ts, syns, abbrevs, list[i])]

(***************************************************************************)
(* The candidate entities the extractors produce.  The regular expressions  *)
(* and str.find are not modelled: a candidate is any span of 0..MaxPos with *)
(* a label, a text and the confidence its extractor gives it.               *)
(***************************************************************************)
Spans == {sp \in (0..MaxPos) \X (0..MaxPos) : sp[1] < sp[2]}

\* _extract_pattern_entities (BLOOD_PRESSURE, DOSAGE) and
\* _extract_terminology_entities (main term, synonym)
BloodPressureKind ==
    [label |-> "BLOOD_PRESSURE", text |-> <<"120/80">>,
     confidence |-> ConfBloodPressure, normalized_form |-> <<"120/80">>]
DosageKind ==
    [label |-> "DOSAGE", text |-> <<"500mg">>,
     confidence |-> ConfDosage, normalized_form |-> <<"500mg">>]
MainTermKind ==
    [label |-> "CONDITIONS", text |-> <<"hypertension">>,
     confidence |-> ConfMainTerm, normalized_form |-> <<"hypertension">>]
SynonymKind ==
    [label |-> "CONDITIONS", text |-> <<"high", "blood", "pressure">>,
     confidence |-> ConfSynonym, normalized_form |-> <<"hypertension">>]

\* _extract_terminology_entities on a text that contains 'dm' (as
\* 'admitted' does): 'dm' is a synonym of 'diabetes' in the engine's
\* terminology, and only an abbreviation in the Vocabulary Store.
AbbreviationKind ==
    [label |-> "CONDITIONS", text |-> <<"dm">>,
     confidence |-> ConfSynonym, normalized_form |-> <<"diabetes">>]

\* MedicalEntity(text, label, start, end, confidence, normalized_form); id is
\* the object's identity, its place in the candidate list.
MedicalEntity(id, kind, span) ==
    [id |-> id, text |-> kind.text, label |-> kind.label,
     start |-> span[1], end |-> span[2], confidence |-> kind.confidence,
     normalized_form |-> kind.normalized_form]

CandidateLists(kinds, n) ==
    UNION {{[i \in 1..k |-> MedicalEntity(i, f[i][1], f[i][2])] :
                f \in [1..k -> kinds \X Spans]} : k \in 0..n}

(***************************************************************************)
(* MedicalNLPService._extract_form_fields and auto_fill_form               *)
(***************************************************************************)

\* _extract_pattern_entities (AGE) and _extract_terminology_entities (a main
\* term of the category 'medications')
AgeKind ==
    [label |-> "AGE", text |-> <<"45">>,
     confidence |-> ConfAge, normalized_form |-> <<"45">>]
MedicationKind ==
    [label |-> "MEDICATIONS", text |-> <<"metformin">>,
     confidence |-> ConfMainTerm, normalized_form |-> <<"metformin">>]

\* abs(dosage['start'] - entity['end']) < 50, and confidence < 0.8
NearbyChars == 50
ReviewBelow == 800

\* None, where a value is expected (a value is a phrase)
NoValue == <<>>

FieldData(value, confidence) == [value |-> value, confidence |-> confidence]

\* form_fields as _extract_form_fields creates it; the sections that nothing
\* writes (current_visit, provider_info) stay empty.
EmptyFormFields ==
    [patient_demographics |-> EmptyDict, medical_history |-> EmptyDict,
     current_visit |-> EmptyDict, medications |-> <<>>, vital_signs |-> EmptyDict,
     insurance_info |-> EmptyDict, provider_info |-> EmptyDict]

\* The dosage of a medication: the first DOSAGE entity within 50 characters
\* of its end, as a list of at most one entry.
NearbyDosage(all, entity) ==
    LET near == {i \in 1..Len(all) :
                    /\ all[i].label = "DOSAGE"
                    /\ all[i].start - entity.end < NearbyChars
                    /\ entity.end - all[i].start < NearbyChars}
    IN  IF near = {} THEN <<>>
        ELSE LET i == CHOOSE k \in near : \A j \in near : k <= j
             IN  <<FieldData(all[i].text, all[i].confidence)>>

\* One iteration of the loop over the entities.
ExtractFormField(form_fields, all, entity) ==
    LET data == FieldData(entity.text, entity.confidence)
        normal == FieldData(entity.normalized_form, entity.confidence)
        history == form_fields.medical_history
    IN  CASE entity.label = "PATIENT_NAME" ->
               [form_fields EXCEPT !.patient_demographics = DictSet(@, "name", data)]
          [] entity.label = "AGE" ->
               [form_fields EXCEPT !.patient_demographics = DictSet(@, "age", data)]
          [] entity.label = "DATE_OF_BIRTH" ->
               [form_fields EXCEPT
                    !.patient_demographics = DictSet(@, "date_of_birth", data)]
          [] entity.label \in {"CONDITIONS", "DIAGNOSIS"} ->
               IF "primary_diagnosis" \notin DOMAIN history
               THEN [form_fields EXCEPT
                        !.medical_history = DictSet(@, "primary_diagnosis", normal)]
               ELSE [form_fields EXCEPT
                        !.medical_history =
                            DictSet(@, "secondary_diagnoses",
                                    (IF "secondary_diagnoses" \in DOMAIN history
                                     THEN history["secondary_diagnoses"] ELSE <<>>)
                                    \o <<normal>>)]
          [] entity.label \in {"MEDICATIONS", "MEDICATION"} ->
               [form_fields EXCEPT
                    !.medications =
                        Append(@, [name |-> entity.normalized_form,
                                   confidence |-> entity.confidence,
                                   dosage |-> NearbyDosage(all, entity)])]
          [] entity.label = "BLOOD_PRESSURE" ->
               [form_fields EXCEPT !.vital_signs = DictSet(@, "blood_pressure", data)]
          [] entity.label = "TEMPERATURE" ->
               [form_fields EXCEPT !.vital_signs = DictSet(@, "temperature", data)]
          [] entity.label = "INSURANCE_ID" ->
               [form_fields EXCEPT !.insurance_info = DictSet(@, "policy_number", data)]
          [] OTHER -> form_fields

RECURSIVE ExtractFormFieldsLoop(_, _, _)
ExtractFormFieldsLoop(form_fields, all, rest) ==
    IF rest = <<>> THEN form_fields
    ELSE ExtractFormFieldsLoop(ExtractFormField(form_fields, all, Head(rest)),
                               all, Tail(rest))

\* _extract_form_fields(entities, text)
ExtractFormFields(list) == ExtractFormFieldsLoop(EmptyFormFields, list, list)

\* A field of a form template: its name and its 'category'.
TemplateField(name, category) == [name |-> name, category |-> category]

\* What auto_fill_form finds for one field of the template, looked up by the
\* field's name in the section of its category: (value, confidence), or
\* (None, 0.0).
FieldFound(form_fields, field) ==
    LET key == field.name
        In(section) == IF key \in DOMAIN section THEN section[key]
                       ELSE FieldData(NoValue, 0)
    IN  CASE field.category = "demographics" -> In(form_fields.patient_demographics)
          [] field.category = "medical" -> In(form_fields.medical_history)
          [] field.category = "medications" ->
               IF form_fields.medications # <<>>
               THEN FieldData(form_fields.medications[1].name,
                              form_fields.medications[1].confidence)
               ELSE FieldData(NoValue, 0)
          [] field.category = "vitals" -> In(form_fields.vital_signs)
          [] OTHER -> FieldData(NoValue, 0)

\* filled_form[field_name]
FilledField(form_fields, field) ==
    LET found == FieldFound(form_fields, field)
    IN  [name |-> field.name, value |-> found.value, confidence |-> found.confidence,
         auto_filled |-> found.value # NoValue,
         requires_review |-> found.confidence < ReviewBelow]

RECURSIVE SumConfidence(_)
SumConfidence(fields) ==
    IF fields = <<>> THEN 0
    ELSE Head(fields).confidence + SumConfidence(Tail(fields))

\* The result of auto_fill_form without 'analysis'; the filled form in the
\* order of the template.
AutoFillForm(form_fields, form_template) ==
    LET filled_form == [i \in 1..Len(form_template) |->
                            FilledField(form_fields, form_template[i])]
        with_value == SelectSeq(filled_form, LAMBDA f : f.value # NoValue)
    IN  [filled_form |-> filled_form,
         overall_confidence |-> IF with_value # <<>>
                                THEN SumConfidence(with_value) \div Len(with_value)
                                ELSE 0,
         fields_filled |-> Len(with_value),
         total_fields |-> Len(filled_form)]

(***************************************************************************)
(* Abbreviation expansion: MedicalNLPEngine._expand_abbreviations and       *)
(* MedicalTerminologyManager.expand_abbreviations.                          *)
(*                                                                         *)
(* A text is the sequence of its whitespace-separated tokens (text.split). *)
(* A token is kept as what the code reads of it:                           *)
(*   word   re.sub(r'[^\w]', '', word.lower()), its word characters in     *)
(*          lower case;                                                    *)
(*   case   "upper" if word.isupper(), else "title" if word.istitle(),     *)
(*          else "lower" or "mixed";                                       *)
(*   pre, mid, post   its other characters, re.findall(r'[^\w]', word), in *)
(*          order: those before the first word character, those between    *)
(*          word characters and those after the last one.                  *)
(***************************************************************************)
Token(word, case, pre, mid, post) ==
    [word |-> word, case |-> case, pre |-> pre, mid |-> mid, post |-> post]

\* self.abbreviations of MedicalNLPEngine, as _load_medical_abbreviations
\* sets it: abbreviation, expansion.
EngineAbbreviationList == <<
    <<"bp", <<"blood", "pressure">> >>,
    <<"hr", <<"heart", "rate">> >>,
    <<"rr", <<"respiratory", "rate">> >>,
    <<"temp", <<"temperature">> >>,
    <<"o2sat", <<"oxygen", "saturation">> >>,
    <<"bmi", <<"body", "mass", "index">> >>,
    <<"htn", <<"hypertension">> >>,
    <<"dm", <<"diabetes", "mellitus">> >>,
    <<"mi", <<"myocardial", "infarction">> >>,
    <<"copd", <<"chronic", "obstructive", "pulmonary", "disease">> >>,
    <<"chf", <<"congestive", "heart", "failure">> >>,
    <<"afib", <<"atrial", "fibrillation">> >>,
    <<"cad", <<"coronary", "artery", "disease">> >>,
    <<"ckd", <<"chronic", "kidney", "disease">> >>,
    <<"asa", <<"aspirin">> >>,
    <<"acei", <<"ace", "inhibitor">> >>,
    <<"arb", <<"angiotensin", "receptor", "blocker">> >>,
    <<"ppi", <<"proton", "pump", "inhibitor">> >>,
    <<"nsaid", <<"nonsteroidal", "anti-inflammatory", "drug">> >>,
    <<"mg", <<"milligrams">> >>,
    <<"ml", <<"milliliters">> >>,
    <<"mcg", <<"micrograms">> >>,
    <<"iu", <<"international", "units">> >>,
    <<"bid", <<"twice", "daily">> >>,
    <<"tid", <<"three", "times", "daily">> >>,
    <<"qid", <<"four", "times", "daily">> >>,
    <<"prn", <<"as", "needed">> >>,
    <<"qd", <<"once", "daily">> >>,
    <<"qod", <<"every", "other", "day">> >>,
    <<"qhs", <<"at", "bedtime">> >>,
    <<"ac", <<"before", "meals">> >>,
    <<"pc", <<"after", "meals">> >>,
    <<"po", <<"by", "mouth">> >>,
    <<"iv", <<"intravenous">> >>,
    <<"im", <<"intramuscular">> >>,
    <<"sq", <<"subcutaneous">> >>,
    <<"sl", <<"sublingual">> >>,
    <<"pr", <<"per", "rectum">> >>
    >>

\* The same dict, keyed as the Vocabulary Store's: by the phrase of the key.
EngineAbbreviations ==
    [k \in {<<EngineAbbreviationList[i][1]>> : i \in 1..Len(EngineAbbreviationList)} |->
        LET i == CHOOSE j \in 1..Len(EngineAbbreviationList) :
                    EngineAbbreviationList[j][1] = k[1]
        IN  EngineAbbreviationList[i][2]]

\* The words of the expansions that hold a character outside \w: what
\* re.sub(r'[^\w]', '', w) and re.findall(r'[^\w]', w) give for them.
CleanWord(w) == IF w = "anti-inflammatory" THEN "antiinflammatory" ELSE w
PunctuationOf(w) == IF w = "anti-inflammatory" THEN <<"-">> ELSE <<>>

\* expansion.upper() / expansion.title() / expansion, as the case of each of
\* its tokens
ExpansionCase(tok) ==
    IF tok.case = "upper" THEN "upper"
    ELSE IF tok.case = "title" THEN "title"
    ELSE "lower"

\* The body of the for loop: the tokens one word of the input becomes.  The
\* expansion is followed by every character of the word outside \w, in order.
ExpandToken(table, tok) ==
    IF <<tok.word>> \in DOMAIN table
    THEN LET expansion == table[<<tok.word>>]
             n == Len(expansion)
         IN  [i \in 1..n |->
                Token(CleanWord(expansion[i]), ExpansionCase(tok), <<>>,
                      PunctuationOf(expansion[i]),
                      IF i = n THEN tok.pre \o tok.mid \o tok.post ELSE <<>>)]
    ELSE <<tok>>

\* ' '.join(expanded_words), split again into tokens
RECURSIVE ExpandAbbreviations(_, _)
ExpandAbbreviations(table, txt) ==
    IF txt = <<>> THEN <<>>
    ELSE ExpandToken(table, Head(txt)) \o ExpandAbbreviations(table, Tail(txt))

(***************************************************************************)
(* MedicalFormMapper                                                       *)
(***************************************************************************)
Field(name, required, type) == [name |-> name, required |-> required, type |-> type]

\* _load_form_templates: form type -> its 'fields', in their order
FormTemplates ==
    [t \in {"patient_intake", "discharge_summary", "insurance_claim"} |->
        CASE t = "patient_intake" -> <<
                Field("patient_name", TRUE, "text"),
                Field("date_of_birth", TRUE, "date"),
                Field("age", FALSE, "number"),
                Field("insurance_id", TRUE, "text"),
                Field("chief_complaint", TRUE, "textarea"),
                Field("medications", FALSE, "textarea"),
                Field("allergies", FALSE, "text") >>
          [] t = "discharge_summary" -> <<
                Field("patient_name", TRUE, "text"),
                Field("medical_record_number", TRUE, "text"),
                Field("primary_diagnosis", TRUE, "text"),
                Field("medications", TRUE, "textarea"),
                Field("discharge_instructions", TRUE, "textarea") >>
          [] t = "insurance_claim" -> <<
                Field("patient_name", TRUE, "text"),
                Field("date_of_birth", TRUE, "date"),
                Field("insurance_id", TRUE, "text"),
                Field("primary_diagnosis", TRUE, "text"),
                Field("procedure_codes", FALSE, "text"),
                Field("provider_name", TRUE, "text") >>]

\* _initialize_field_mappings: extracted field -> the form fields it fills
FieldMappings ==
    [e \in {"patient_name", "date_of_birth", "age", "medical_record_number",
            "insurance_id", "primary_diagnosis", "chief_complaint",
            "medications", "allergies"} |->
        CASE e = "patient_name" -> {"patient_name", "name", "full_name"}
          [] e = "date_of_birth" -> {"date_of_birth", "dob", "birth_date"}
          [] e = "age" -> {"age", "patient_age"}
          [] e = "medical_record_number" ->
                {"mrn", "medical_record_number", "record_number"}
          [] e = "insurance_id" -> {"insurance_id", "policy_number", "member_id"}
          [] e = "primary_diagnosis" ->
                {"primary_diagnosis", "diagnosis", "main_diagnosis"}
          [] e = "chief_complaint" ->
                {"chief_complaint", "complaint", "presenting_problem"}
          [] e = "medications" -> {"medications", "current_medications", "meds"}
          [] e = "allergies" -> {"allergies", "drug_allergies", "known_allergies"}]

\* _fields_match
FieldsMatch(extracted_field, form_field) ==
    IF extracted_field = form_field THEN TRUE
    ELSE IF extracted_field \in DOMAIN FieldMappings
         THEN form_field \in FieldMappings[extracted_field]
         ELSE FALSE

\* Index of the first extracted field that matches, 0 if none: the inner for
\* loop of map_to_form, which breaks at the first match.
FirstMatch(extracted, form_field) ==
    LET hits == {i \in 1..Len(extracted) : FieldsMatch(extracted[i].name, form_field)}
    IN  IF hits = {} THEN 0 ELSE CHOOSE i \in hits : \A j \in hits : i <= j

\* Python's truth value of a mapped value: None and the empty string are false.
Truthy(value) == value # Null /\ value # ""

\* (variant of MapField that leaves the confidence of a filled field at 0)
MapFieldWithoutConfidence(extracted, field_config) ==
    LET i == FirstMatch(extracted, field_config.name)
        mapped_value == IF i = 0 THEN Null ELSE extracted[i].value
    IN  [name |-> field_config.name, value |-> mapped_value, confidence |-> 0,
         required |-> field_config.required, type |-> field_config.type,
         auto_filled |-> mapped_value # Null]

\* mapped_form[form_field] = {...}
MapField(extracted, field_config) ==
    LET i == FirstMatch(extracted, field_config.name)
        mapped_value == IF i = 0 THEN Null ELSE extracted[i].value
        confidence == IF i = 0 THEN 0 ELSE extracted[i].confidence
    IN  [name |-> field_config.name, value |-> mapped_value,
         confidence |-> confidence,
         required |-> field_config.required, type |-> field_config.type,
         auto_filled |-> mapped_value # Null]

\* (variant of Validate that lists the missing fields but leaves is_valid true)
ValidateKeepsValid(mapped_form) ==
    LET Missing(f) == f.required /\ ~Truthy(f.value)
        Low(f) == Truthy(f.value) /\ f.confidence < 700
        missing == SelectSeq(mapped_form, Missing)
        low == SelectSeq(mapped_form, Low)
    IN  [is_valid |-> TRUE,
         missing_required |-> [i \in 1..Len(missing) |-> missing[i].name],
         field_warnings |-> [i \in 1..Len(low) |->
                                [field |-> low[i].name,
                                 message |-> "Low confidence extraction",
                                 confidence |-> low[i].confidence]],
         confidence_scores |-> [i \in 1..Len(mapped_form) |->
                                <<mapped_form[i].name, mapped_form[i].confidence>>]]

\* validation_results, as the loop of map_to_form leaves it
Validate(mapped_form) ==
    LET Missing(f) == f.required /\ ~Truthy(f.value)
        Low(f) == Truthy(f.value) /\ f.confidence < 700
        missing == SelectSeq(mapped_form, Missing)
        low == SelectSeq(mapped_form, Low)
    IN  [is_valid |-> missing = <<>>,
         missing_required |-> [i \in 1..Len(missing) |-> missing[i].name],
         field_warnings |-> [i \in 1..Len(low) |->
                                [field |-> low[i].name,
                                 message |-> "Low confidence extraction",
                                 confidence |-> low[i].confidence]],
         confidence_scores |-> [i \in 1..Len(mapped_form) |->
                                <<mapped_form[i].name, mapped_form[i].confidence>>]]

\* (variant of CompletionRate that divides by the number of required fields)
CompletionRateOverRequired(mapped_form) ==
    LET filled == Cardinality({i \in 1..Len(mapped_form) : Truthy(mapped_form[i].value)})
        total == Cardinality({i \in 1..Len(mapped_form) : mapped_form[i].required})
    IN  IF total > 0 THEN (filled * 1000) \div total ELSE 0

\* completion_rate = filled_fields / total_fields if total_fields > 0 else 0,
\* in thousandths
CompletionRate(mapped_form) ==
    LET filled == Cardinality({i \in 1..Len(mapped_form) : Truthy(mapped_form[i].value)})
        total == Len(mapped_form)
    IN  IF total > 0 THEN (filled * 1000) \div total ELSE 0

\* map_to_form.  The ValueError raised for an unknown form type is caught by
\* the method's own except clause, which returns the error result.
MapToForm(extracted, type) ==
    IF type \notin DOMAIN FormTemplates
    THEN [outcome |-> "returned",
          form_type |-> type,
          mapped_fields |-> <<>>,
          validation |-> [is_valid |-> FALSE, error |-> "Unknown form type"],
          completion_rate |-> 0, fields_filled |-> 0, total_fields |-> 0]
    ELSE LET template == FormTemplates[type]
             mapped_form == [i \in 1..Len(template) |-> MapField(extracted, template[i])]
         IN  [outcome |-> "returned",
              form_type |-> type,
              mapped_fields |-> mapped_form,
              validation |-> Validate(mapped_form),
              completion_rate |-> CompletionRate(mapped_form),
              fields_filled |->
                 Cardinality({i \in 1..Len(mapped_form) : Truthy(mapped_form[i].value)}),
              total_fields |-> Len(mapped_form)]

(***************************************************************************)
(* MedicalFieldExtractor                                                   *)
(***************************************************************************)
FieldBaseConfidence == 800
LabelBonus == 100
PrefixBonus == 100
ShortMatchLength == 3
ShortMatchPenalty == 200
DocumentStartBonus == 50
MinFieldConfidence == 100
MaxFieldConfidence == 1000

\* A regular expression of field_patterns, with what the code asks of its
\* text: colon is ':' in pattern, prefix is 'Patient:' in pattern or
\* 'Name:' in pattern; free_text tells that its group can capture blanks only.
Pattern(regex, colon, prefix, free_text) ==
    [regex |-> regex, colon |-> colon, prefix |-> prefix, free_text |-> free_text]

\* _initialize_field_patterns (the degree sign of the temperature patterns is
\* written deg)
FieldPatterns ==
    [t \in {"patient_name", "date_of_birth", "age", "medical_record_number",
            "insurance_id", "primary_diagnosis", "chief_complaint",
            "medications", "allergies", "blood_pressure", "heart_rate",
            "temperature", "weight", "height"} |->
        CASE t = "patient_name" -> <<
                Pattern("Patient:?\\s+([A-Z][a-z]+(?:\\s+[A-Z][a-z]+)+)", TRUE, TRUE, FALSE),
                Pattern("Name:?\\s+([A-Z][a-z]+(?:\\s+[A-Z][a-z]+)+)", TRUE, TRUE, FALSE),
                Pattern("([A-Z][a-z]+\\s+[A-Z][a-z]+),?\\s+(?:age|DOB|born)", TRUE, FALSE, FALSE) >>
          [] t = "date_of_birth" -> <<
                Pattern("DOB:?\\s+(\\d{1,2}[/-]\\d{1,2}[/-]\\d{2,4})", TRUE, FALSE, FALSE),
                Pattern("Date of Birth:?\\s+(\\d{1,2}[/-]\\d{1,2}[/-]\\d{2,4})", TRUE, FALSE, FALSE),
                Pattern("Born:?\\s+(\\d{1,2}[/-]\\d{1,2}[/-]\\d{2,4})", TRUE, FALSE, FALSE) >>
          [] t = "age" -> <<
                Pattern("age:?\\s+(\\d{1,3})", TRUE, FALSE, FALSE),
                Pattern("(\\d{1,3})\\s*(?:year|yr|y)[\\s-]*old", TRUE, FALSE, FALSE),
                Pattern("(\\d{1,3})\\s*yo", FALSE, FALSE, FALSE) >>
          [] t = "medical_record_number" -> <<
                Pattern("MRN:?\\s+(\\d+)", TRUE, FALSE, FALSE),
                Pattern("Medical Record:?\\s+(\\d+)", TRUE, FALSE, FALSE),
                Pattern("Record #:?\\s+(\\d+)", TRUE, FALSE, FALSE) >>
          [] t = "insurance_id" -> <<
                Pattern("Insurance:?\\s+([A-Z0-9]+)", TRUE, FALSE, FALSE),
                Pattern("Policy:?\\s+([A-Z0-9]+)", TRUE, FALSE, FALSE),
                Pattern("Member ID:?\\s+([A-Z0-9]+)", TRUE, FALSE, FALSE) >>
          [] t = "primary_diagnosis" -> <<
                Pattern("Primary Diagnosis:?\\s+([^\\n\\r]+)", TRUE, FALSE, TRUE),
                Pattern("Diagnosis:?\\s+([^\\n\\r]+)", TRUE, FALSE, TRUE),
                Pattern("Impression:?\\s+([^\\n\\r]+)", TRUE, FALSE, TRUE) >>
          [] t = "chief_complaint" -> <<
                Pattern("Chief Complaint:?\\s+([^\\n\\r]+)", TRUE, FALSE, TRUE),
                Pattern("CC:?\\s+([^\\n\\r]+)", TRUE, FALSE, TRUE),
                Pattern("Presenting complaint:?\\s+([^\\n\\r]+)", TRUE, FALSE, TRUE) >>
          [] t = "medications" -> <<
                Pattern("Medications?:?\\s*\\n((?:[^\\n]+\\n?)+?)(?:\\n\\s*\\n|\\n[A-Z]|\\Z)", TRUE, FALSE, TRUE),
                Pattern("Current Meds:?\\s*\\n((?:[^\\n]+\\n?)+?)(?:\\n\\s*\\n|\\n[A-Z]|\\Z)", TRUE, FALSE, TRUE),
                Pattern("Rx:?\\s*\\n((?:[^\\n]+\\n?)+?)(?:\\n\\s*\\n|\\n[A-Z]|\\Z)", TRUE, FALSE, TRUE) >>
          [] t = "allergies" -> <<
                Pattern("Allergies:?\\s+([^\\n\\r]+)", TRUE, FALSE, TRUE),
                Pattern("Drug Allergies:?\\s+([^\\n\\r]+)", TRUE, FALSE, TRUE),
                Pattern("NKDA|No known drug allergies", FALSE, FALSE, FALSE) >>
          [] t = "blood_pressure" -> <<
                Pattern("BP:?\\s+(\\d{2,3}/\\d{2,3})", TRUE, FALSE, FALSE),
                Pattern("Blood Pressure:?\\s+(\\d{2,3}/\\d{2,3})", TRUE, FALSE, FALSE),
                Pattern("(\\d{2,3}/\\d{2,3})\\s*mmHg", FALSE, FALSE, FALSE) >>
          [] t = "heart_rate" -> <<
                Pattern("HR:?\\s+(\\d{2,3})", TRUE, FALSE, FALSE),
                Pattern("Heart Rate:?\\s+(\\d{2,3})", TRUE, FALSE, FALSE),
                Pattern("Pulse:?\\s+(\\d{2,3})", TRUE, FALSE, FALSE) >>
          [] t = "temperature" -> <<
                Pattern("Temp:?\\s+(\\d{2,3}(?:\\.\\d)?)\\s*deg?[FC]", TRUE, FALSE, FALSE),
                Pattern("Temperature:?\\s+(\\d{2,3}(?:\\.\\d)?)\\s*deg?[FC]", TRUE, FALSE, FALSE),
                Pattern("(\\d{2,3}(?:\\.\\d)?)\\s*deg[FC]", TRUE, FALSE, FALSE) >>
          [] t = "weight" -> <<
                Pattern("Weight:?\\s+(\\d{2,3}(?:\\.\\d)?)\\s*(?:lbs?|kg)", TRUE, FALSE, FALSE),
                Pattern("Wt:?\\s+(\\d{2,3}(?:\\.\\d)?)\\s*(?:lbs?|kg)", TRUE, FALSE, FALSE),
                Pattern("(\\d{2,3}(?:\\.\\d)?)\\s*(?:lbs?|kg)", TRUE, FALSE, FALSE) >>
          [] t = "height" -> <<
                Pattern("Height:?\\s+(\\d+'?\\s*\\d*\"?|\\d+\\s*(?:cm|in))", TRUE, FALSE, FALSE),
                Pattern("Ht:?\\s+(\\d+'?\\s*\\d*\"?|\\d+\\s*(?:cm|in))", TRUE, FALSE, FALSE),
                Pattern("(\\d+'?\\s*\\d*\"?)\\s*tall", FALSE, FALSE, FALSE) >>]

\* One match of re.finditer: the pattern (by its index in the label's
\* list), match.start(), len(match.group()) and the stripped text of the
\* group (of the whole match if the pattern has no group).
Match(pattern, start, length, value) ==
    [pattern |-> pattern, start |-> start, length |-> length, value |-> value]

\* _clean_field_value, of a stripped one-line value.  The branches of
\* patient_name, date_of_birth, age, primary_diagnosis and chief_complaint
\* call re, a name the module never imports: the NameError is caught and the
\* value returned as it came.  The branch of medications and allergies joins
\* the value's non-blank lines again, and the others only strip.
CleanFieldValue(value, field_type) == value

\* _calculate_field_confidence, in thousandths.
\* match.start() < len(text) * 0.2 is 5 * start < len.
CalculateFieldConfidence(match, pattern, text_len) ==
    LET labelled == FieldBaseConfidence + (IF pattern.colon THEN LabelBonus ELSE 0)
        prefixed == labelled + (IF pattern.prefix THEN PrefixBonus ELSE 0)
        sized == prefixed -
                 (IF match.length < ShortMatchLength THEN ShortMatchPenalty ELSE 0)
        placed == sized + (IF 5 * match.start < text_len
                           THEN DocumentStartBonus ELSE 0)
    IN  Min(MaxFieldConfidence, Max(MinFieldConfidence, placed))

\* field_matches of one field type: the matches whose cleaned value is not
\* empty, in the order of the patterns and of finditer.
FieldMatches(field_type, found, text_len) ==
    LET Candidate(m) ==
            [value |-> CleanFieldValue(m.value, field_type),
             confidence |-> CalculateFieldConfidence(
                                m, FieldPatterns[field_type][m.pattern], text_len),
             start_pos |-> m.start,
             end_pos |-> m.start + m.length,
             pattern_used |-> FieldPatterns[field_type][m.pattern].regex]
        Kept(m) == CleanFieldValue(m.value, field_type) # ""
        kept == SelectSeq(found, Kept)
    IN  [i \in 1..Len(kept) |-> Candidate(kept[i])]

\* (variant of BestMatch that keeps the first candidate)
FirstCandidate(field_matches) == field_matches[1]

\* max(field_matches, key=lambda x: x['confidence']): the first of the
\* candidates of the highest confidence.
BestMatch(field_matches) ==
    LET best == CHOOSE i \in 1..Len(field_matches) :
                    /\ \A j \in 1..Len(field_matches) :
                           field_matches[j].confidence <= field_matches[i].confidence
                    /\ \A j \in 1..(i - 1) :
                           field_matches[j].confidence < field_matches[i].confidence
    IN  field_matches[best]

\* extracted_fields[field_type] = best_match, on a dict kept as the sequence
\* of its items
SetField(fields, name, best_match) ==
    LET item == [name |-> name] @@ best_match
        at == {i \in 1..Len(fields) : fields[i].name = name}
    IN  IF at = {} THEN Append(fields, item)
        ELSE [i \in 1..Len(fields) |-> IF i \in at THEN item ELSE fields[i]]

\* The for loop of _extract_fields_sync over field_types.
RECURSIVE ExtractLoop(_, _, _, _)
ExtractLoop(types, found, text_len, fields) ==
    IF types = <<>> THEN fields
    ELSE LET field_type == Head(types)
         IN  IF field_type \notin DOMAIN FieldPatterns
             THEN ExtractLoop(Tail(types), found, text_len, fields)
             ELSE LET field_matches == FieldMatches(field_type, found[field_type], text_len)
                  IN  IF field_matches # <<>>
                      THEN ExtractLoop(Tail(types), found, text_len,
                                       SetField(fields, field_type, BestMatch(field_matches)))
                      ELSE ExtractLoop(Tail(types), found, text_len, fields)

\* _extract_fields_sync
ExtractFieldsSync(types, found, text_len) ==
    LET fields == ExtractLoop(types, found, text_len, <<>>)
    IN  [outcome |-> "returned",
         extracted_fields |-> fields,
         total_fields_found |-> Len(fields),
         extraction_method |-> "pattern_based"]

(***************************************************************************)
(* MedicalNLPEngine._extract_terminology_entities                          *)
(*                                                                         *)
(* A text is the sequence of its words, separated by one blank; an offset  *)
(* is a character offset, computed from the lengths of the words.          *)
(***************************************************************************)
TermEntry(main_term, syns) == [main_term |-> main_term, synonyms |-> syns]

\* self.medical_terminology, as _load_medical_terminology builds it: the
\* categories in their order, each with its terms in their order.
EngineTerminology == <<
    [category |-> "conditions", terms |-> <<
        TermEntry(<<"hypertension">>,
                  << <<"high", "blood", "pressure">>, <<"htn">>, <<"elevated", "bp">> >>),
        TermEntry(<<"diabetes">>,
                  << <<"diabetes", "mellitus">>, <<"dm">>, <<"diabetic">> >>),
        TermEntry(<<"myocardial", "infarction">>,
                  << <<"heart", "attack">>, <<"mi">>, <<"cardiac", "arrest">> >>),
        TermEntry(<<"pneumonia">>,
                  << <<"lung", "infection">>, <<"respiratory", "infection">> >>),
        TermEntry(<<"fracture">>, << <<"broken", "bone">>, <<"break">>, <<"fx">> >>),
        TermEntry(<<"migraine">>, << <<"severe", "headache">>, <<"headache">> >>),
        TermEntry(<<"asthma">>, << <<"breathing", "difficulty">>, <<"wheezing">> >>),
        TermEntry(<<"depression">>,
                  << <<"depressive", "disorder">>, <<"mood", "disorder">> >>) >>],
    [category |-> "medications", terms |-> <<
        TermEntry(<<"metformin">>, << <<"glucophage">>, <<"fortamet">> >>),
        TermEntry(<<"lisinopril">>, << <<"prinivil">>, <<"zestril">> >>),
        TermEntry(<<"atorvastatin">>, << <<"lipitor">> >>),
        TermEntry(<<"metoprolol">>, << <<"lopressor">>, <<"toprol">> >>),
        TermEntry(<<"amlodipine">>, << <<"norvasc">> >>),
        TermEntry(<<"omeprazole">>, << <<"prilosec">> >>),
        TermEntry(<<"levothyroxine">>, << <<"synthroid">> >>),
        TermEntry(<<"albuterol">>, << <<"proventil">>, <<"ventolin">> >>) >>],
    [category |-> "body_parts", terms |-> <<
        TermEntry(<<"chest">>, << <<"thorax">>, <<"thoracic">> >>),
        TermEntry(<<"abdomen">>, << <<"belly">>, <<"abdominal">>, <<"stomach">> >>),
        TermEntry(<<"head">>, << <<"cranium">>, <<"cranial">> >>),
        TermEntry(<<"heart">>, << <<"cardiac">>, <<"cardio">> >>),
        TermEntry(<<"lung">>, << <<"pulmonary">>, <<"respiratory">> >>),
        TermEntry(<<"kidney">>, << <<"renal">>, <<"nephro">> >>),
        TermEntry(<<"liver">>, << <<"hepatic">>, <<"hepato">> >>) >>] >>

\* category.upper()
CategoryLabel(category) ==
    CASE category = "conditions" -> "CONDITIONS"
      [] category = "medications" -> "MEDICATIONS"
      [] category = "body_parts" -> "BODY_PARTS"

\* len(), of the words a text of the model is made of and of the vocabulary
\* words they contain
WordLength(w) ==
    CASE w \in {"hypertension", "Hypertension"} -> 12
      [] w \in {"pressure", "migraine"} -> 8
      [] w = "blood" -> 5
      [] w = "high" -> 4
      [] w = "and" -> 3
      [] w \in {"mi", "i-dotted"} -> 2
      [] w = "I-dotted" -> 1

RECURSIVE PhraseLength(_)
PhraseLength(phrase) ==
    IF phrase = <<>> THEN 0
    ELSE WordLength(Head(phrase)) + (IF Len(phrase) > 1 THEN 1 ELSE 0)
         + PhraseLength(Tail(phrase))

\* Offset of the i-th word of a text.
WordStart(txt, i) == PhraseLength(SubSeq(txt, 1, i - 1)) + (IF i > 1 THEN 1 ELSE 0)

\* The vocabulary words that occur inside a word of the model's texts without
\* being the word, with their offset in it: 'mi' in 'migraine'.
WordContains(w) == IF w = "migraine" THEN {<<"mi", 0>>} ELSE {}

\* The offsets at which `phrase` occurs in text.lower(): as whole words, or for
\* a one-word phrase inside a word.
Occurrences(phrase, txt) ==
    LET text_lower == Lower(txt)
        whole == {WordStart(text_lower, i) : i \in
                    {k \in 1..(Len(txt) - Len(phrase) + 1) :
                        SubSeq(text_lower, k, k + Len(phrase) - 1) = phrase}}
        inside == IF Len(phrase) # 1 THEN {}
                  ELSE UNION {{WordStart(text_lower, i) + c[2] :
                                  c \in {d \in WordContains(text_lower[i]) :
                                            d[1] = phrase[1]}} :
                              i \in 1..Len(txt)}
    IN  whole \cup inside

\* `phrase in text_lower` and text_lower.find(phrase): the first occurrence,
\* as a set of at most one offset.
Find(phrase, txt) ==
    LET occ == Occurrences(phrase, txt)
    IN  IF occ = {} THEN {} ELSE {CHOOSE o \in occ : \A p \in occ : o <= p}

\* An offset of text.lower() is the same offset of text when no word before
\* it changes its length in lower().
SameOffset(txt, start) ==
    \A k \in 1..Len(txt) :
        WordStart(Lower(txt), k) < start =>
            WordLength(txt[k]) = WordLength(LowerWord(txt[k]))

\* text[start:start + len(phrase)], as words; a slice that is not the phrase
\* found, because the offset of text.lower() is another place of text, is
\* kept as the one word "text[start:end]".
TextAt(phrase, txt, start) ==
    LET at == {k \in 1..Len(txt) : WordStart(txt, k) = start}
    IN  IF ~SameOffset(txt, start)
        THEN <<"text[" \o ToString(start) \o ":"
                \o ToString(start + PhraseLength(phrase)) \o "]">>
        ELSE IF at = {} \/ Len(phrase) = 0 THEN phrase
        ELSE LET k == CHOOSE k \in at : TRUE
             IN  IF SubSeq(Lower(txt), k, k + Len(phrase) - 1) = phrase
                 THEN SubSeq(txt, k, k + Len(phrase) - 1)
                 ELSE phrase

\* The entity of one phrase of the vocabulary, if the phrase is found.
PhraseEntities(phrase, main_term, category, confidence, txt) ==
    LET at == Find(phrase, txt)
    IN  IF at = {} THEN <<>>
        ELSE LET start == CHOOSE o \in at : TRUE
             IN  <<[text |-> TextAt(phrase, txt, start),
                    label |-> CategoryLabel(category),
                    start |-> start, end |-> start + PhraseLength(phrase),
                    confidence |-> confidence, normalized_form |-> main_term]>>

RECURSIVE SynonymEntities(_, _, _, _)
SynonymEntities(syns, main_term, category, txt) ==
    IF syns = <<>> THEN <<>>
    ELSE PhraseEntities(Head(syns), main_term, category, ConfSynonym, txt)
         \o SynonymEntities(Tail(syns), main_term, category, txt)

RECURSIVE TermEntities(_, _, _)
TermEntities(entries, category, txt) ==
    IF entries = <<>> THEN <<>>
    ELSE PhraseEntities(Head(entries).main_term, Head(entries).main_term,
                        category, ConfMainTerm, txt)
         \o SynonymEntities(Head(entries).synonyms, Head(entries).main_term,
                            category, txt)
         \o TermEntities(Tail(entries), category, txt)

RECURSIVE CategoryEntities(_, _)
CategoryEntities(categories, txt) ==
    IF categories = <<>> THEN <<>>
    ELSE TermEntities(Head(categories).terms, Head(categories).category, txt)
         \o CategoryEntities(Tail(categories), txt)

\* _extract_terminology_entities; id is the entity's place in the list
ExtractTerminologyEntities(txt) ==
    LET found == CategoryEntities(EngineTerminology, txt)
    IN  [i \in 1..Len(found) |-> [id |-> i] @@ found[i]]

(***************************************************************************)
(* MedicalCodeManager                                                      *)
(*                                                                         *)
(* A string that is searched in or compared by content (a description, a   *)
(* synonym, a query) is the sequence of its characters, so that len() is   *)
(* Len, `in` is the occurrence of a subsequence and lower() works on each  *)
(* character.                                                              *)
(***************************************************************************)
UpperLetters ==
    <<"A", "B", "C", "D", "E", "F", "G", "H", "I", "J", "K", "L", "M",
      "N", "O", "P", "Q", "R", "S", "T", "U", "V", "W", "X", "Y", "Z">>
LowerLetters ==
    <<"a", "b", "c", "d", "e", "f", "g", "h", "i", "j", "k", "l", "m",
      "n", "o", "p", "q", "r", "s", "t", "u", "v", "w", "x", "y", "z">>

\* str.lower()
LowerChars(s) ==
    <<>> \o [i \in 1..Len(s) |->
                IF \E k \in 1..Len(UpperLetters) : UpperLetters[k] = s[i]
                THEN LowerLetters[CHOOSE k \in 1..Len(UpperLetters) : UpperLetters[k] = s[i]]
                ELSE s[i]]

\* query in term
Contains(term, query) ==
    \E i \in 0..(Len(term) - Len(query)) : SubSeq(term, i + 1, i + Len(query)) = query

\* MedicalCode(code, system, description, category, synonyms=...)
MedicalCode(code, system, category, description, syns) ==
    [code |-> code, system |-> system, description |-> description,
     category |-> category, synonyms |-> syns]

\* The codes _initialize_basic_codes adds, in its order.
BasicCodes == <<
    MedicalCode("I10", "ICD-10-CM", "cardiovascular",
        <<"E","s","s","e","n","t","i","a","l"," ","(","p","r","i","m","a","r","y",")"," ","h","y","p","e","r","t","e","n","s","i","o","n">>,
        << <<"h","y","p","e","r","t","e","n","s","i","o","n">>,
           <<"h","i","g","h"," ","b","l","o","o","d"," ","p","r","e","s","s","u","r","e">>,
           <<"h","t","n">> >>),
    MedicalCode("E11.9", "ICD-10-CM", "endocrine",
        <<"T","y","p","e"," ","2"," ","d","i","a","b","e","t","e","s"," ","m","e","l","l","i","t","u","s"," ","w","i","t","h","o","u","t"," ","c","o","m","p","l","i","c","a","t","i","o","n","s">>,
        << <<"d","i","a","b","e","t","e","s">>,
           <<"d","i","a","b","e","t","e","s"," ","m","e","l","l","i","t","u","s">>,
           <<"d","m">>,
           <<"t","y","p","e"," ","2"," ","d","i","a","b","e","t","e","s">> >>),
    MedicalCode("I21.9", "ICD-10-CM", "cardiovascular",
        <<"A","c","u","t","e"," ","m","y","o","c","a","r","d","i","a","l"," ","i","n","f","a","r","c","t","i","o","n",","," ","u","n","s","p","e","c","i","f","i","e","d">>,
        << <<"h","e","a","r","t"," ","a","t","t","a","c","k">>,
           <<"m","y","o","c","a","r","d","i","a","l"," ","i","n","f","a","r","c","t","i","o","n">>,
           <<"m","i">>,
           <<"a","c","u","t","e"," ","m","i">> >>),
    MedicalCode("J44.1", "ICD-10-CM", "respiratory",
        <<"C","h","r","o","n","i","c"," ","o","b","s","t","r","u","c","t","i","v","e"," ","p","u","l","m","o","n","a","r","y"," ","d","i","s","e","a","s","e"," ","w","i","t","h"," ","a","c","u","t","e"," ","e","x","a","c","e","r","b","a","t","i","o","n">>,
        << <<"c","o","p","d">>,
           <<"c","h","r","o","n","i","c"," ","o","b","s","t","r","u","c","t","i","v","e"," ","p","u","l","m","o","n","a","r","y"," ","d","i","s","e","a","s","e">>,
           <<"e","m","p","h","y","s","e","m","a">> >>),
    MedicalCode("N18.6", "ICD-10-CM", "genitourinary",
        <<"E","n","d"," ","s","t","a","g","e"," ","r","e","n","a","l"," ","d","i","s","e","a","s","e">>,
        << <<"k","i","d","n","e","y"," ","f","a","i","l","u","r","e">>,
           <<"r","e","n","a","l"," ","f","a","i","l","u","r","e">>,
           <<"e","s","r","d">>,
           <<"e","n","d"," ","s","t","a","g","e"," ","r","e","n","a","l"," ","d","i","s","e","a","s","e">> >>),
    MedicalCode("F32.9", "ICD-10-CM", "mental",
        <<"M","a","j","o","r"," ","d","e","p","r","e","s","s","i","v","e"," ","d","i","s","o","r","d","e","r",","," ","s","i","n","g","l","e"," ","e","p","i","s","o","d","e",","," ","u","n","s","p","e","c","i","f","i","e","d">>,
        << <<"d","e","p","r","e","s","s","i","o","n">>,
           <<"m","a","j","o","r"," ","d","e","p","r","e","s","s","i","o","n">>,
           <<"d","e","p","r","e","s","s","i","v","e"," ","d","i","s","o","r","d","e","r">> >>),
    MedicalCode("M79.3", "ICD-10-CM", "musculoskeletal",
        <<"P","a","n","n","i","c","u","l","i","t","i","s",","," ","u","n","s","p","e","c","i","f","i","e","d">>,
        << <<"m","u","s","c","l","e"," ","p","a","i","n">>,
           <<"m","y","a","l","g","i","a">>,
           <<"m","u","s","c","l","e"," ","a","c","h","e">> >>),
    MedicalCode("R50.9", "ICD-10-CM", "symptoms",
        <<"F","e","v","e","r",","," ","u","n","s","p","e","c","i","f","i","e","d">>,
        << <<"f","e","v","e","r">>,
           <<"p","y","r","e","x","i","a">>,
           <<"e","l","e","v","a","t","e","d"," ","t","e","m","p","e","r","a","t","u","r","e">> >>),
    MedicalCode("G43.909", "ICD-10-CM", "neurological",
        <<"M","i","g","r","a","i","n","e",","," ","u","n","s","p","e","c","i","f","i","e","d",","," ","n","o","t"," ","i","n","t","r","a","c","t","a","b","l","e",","," ","w","i","t","h","o","u","t"," ","s","t","a","t","u","s"," ","m","i","g","r","a","i","n","o","s","u","s">>,
        << <<"m","i","g","r","a","i","n","e">>,
           <<"h","e","a","d","a","c","h","e">>,
           <<"s","e","v","e","r","e"," ","h","e","a","d","a","c","h","e">> >>),
    MedicalCode("J18.9", "ICD-10-CM", "respiratory",
        <<"P","n","e","u","m","o","n","i","a",","," ","u","n","s","p","e","c","i","f","i","e","d"," ","o","r","g","a","n","i","s","m">>,
        << <<"p","n","e","u","m","o","n","i","a">>,
           <<"l","u","n","g"," ","i","n","f","e","c","t","i","o","n">>,
           <<"r","e","s","p","i","r","a","t","o","r","y"," ","i","n","f","e","c","t","i","o","n">> >>),
    MedicalCode("99213", "CPT", "evaluation",
        <<"O","f","f","i","c","e"," ","o","r"," ","o","t","h","e","r"," ","o","u","t","p","a","t","i","e","n","t"," ","v","i","s","i","t"," ","f","o","r"," ","e","v","a","l","u","a","t","i","o","n"," ","a","n","d"," ","m","a","n","a","g","e","m","e","n","t">>,
        << <<"o","f","f","i","c","e"," ","v","i","s","i","t">>,
           <<"o","u","t","p","a","t","i","e","n","t"," ","v","i","s","i","t">>,
           <<"c","o","n","s","u","l","t","a","t","i","o","n">> >>),
    MedicalCode("99214", "CPT", "evaluation",
        <<"O","f","f","i","c","e"," ","o","r"," ","o","t","h","e","r"," ","o","u","t","p","a","t","i","e","n","t"," ","v","i","s","i","t"," ","f","o","r"," ","e","v","a","l","u","a","t","i","o","n"," ","a","n","d"," ","m","a","n","a","g","e","m","e","n","t">>,
        << <<"d","e","t","a","i","l","e","d"," ","o","f","f","i","c","e"," ","v","i","s","i","t">>,
           <<"c","o","m","p","r","e","h","e","n","s","i","v","e"," ","v","i","s","i","t">> >>),
    MedicalCode("93000", "CPT", "diagnostic",
        <<"E","l","e","c","t","r","o","c","a","r","d","i","o","g","r","a","m",","," ","r","o","u","t","i","n","e"," ","E","C","G"," ","w","i","t","h"," ","a","t"," ","l","e","a","s","t"," ","1","2"," ","l","e","a","d","s">>,
        << <<"e","c","g">>,
           <<"e","k","g">>,
           <<"e","l","e","c","t","r","o","c","a","r","d","i","o","g","r","a","m">>,
           <<"h","e","a","r","t"," ","t","e","s","t">> >>),
    MedicalCode("80053", "CPT", "laboratory",
        <<"C","o","m","p","r","e","h","e","n","s","i","v","e"," ","m","e","t","a","b","o","l","i","c"," ","p","a","n","e","l">>,
        << <<"c","m","p">>,
           <<"m","e","t","a","b","o","l","i","c"," ","p","a","n","e","l">>,
           <<"b","l","o","o","d"," ","c","h","e","m","i","s","t","r","y">>,
           <<"b","a","s","i","c"," ","m","e","t","a","b","o","l","i","c"," ","p","a","n","e","l">> >>),
    MedicalCode("85025", "CPT", "laboratory",
        <<"B","l","o","o","d"," ","c","o","u","n","t",";"," ","c","o","m","p","l","e","t","e"," ","(","C","B","C",")",","," ","a","u","t","o","m","a","t","e","d">>,
        << <<"c","b","c">>,
           <<"c","o","m","p","l","e","t","e"," ","b","l","o","o","d"," ","c","o","u","n","t">>,
           <<"b","l","o","o","d"," ","c","o","u","n","t">>,
           <<"f","u","l","l"," ","b","l","o","o","d"," ","c","o","u","n","t">> >>),
    MedicalCode("36415", "CPT", "procedure",
        <<"C","o","l","l","e","c","t","i","o","n"," ","o","f"," ","v","e","n","o","u","s"," ","b","l","o","o","d"," ","b","y"," ","v","e","n","i","p","u","n","c","t","u","r","e">>,
        << <<"b","l","o","o","d"," ","d","r","a","w">>,
           <<"v","e","n","i","p","u","n","c","t","u","r","e">>,
           <<"p","h","l","e","b","o","t","o","m","y">> >>),
    MedicalCode("71020", "CPT", "radiology",
        <<"R","a","d","i","o","l","o","g","i","c"," ","e","x","a","m","i","n","a","t","i","o","n",","," ","c","h","e","s","t",","," ","2"," ","v","i","e","w","s">>,
        << <<"c","h","e","s","t"," ","x","-","r","a","y">>,
           <<"c","h","e","s","t"," ","x","r","a","y">>,
           <<"c","x","r">>,
           <<"c","h","e","s","t"," ","r","a","d","i","o","g","r","a","p","h">> >>),
    MedicalCode("73060", "CPT", "radiology",
        <<"R","a","d","i","o","l","o","g","i","c"," ","e","x","a","m","i","n","a","t","i","o","n",";"," ","k","n","e","e",","," ","1"," ","o","r"," ","2"," ","v","i","e","w","s">>,
        << <<"k","n","e","e"," ","x","-","r","a","y">>,
           <<"k","n","e","e"," ","x","r","a","y">>,
           <<"k","n","e","e"," ","r","a","d","i","o","g","r","a","p","h">> >>),
    MedicalCode("76700", "CPT", "radiology",
        <<"U","l","t","r","a","s","o","u","n","d",","," ","a","b","d","o","m","i","n","a","l",","," ","r","e","a","l"," ","t","i","m","e"," ","w","i","t","h"," ","i","m","a","g","e"," ","d","o","c","u","m","e","n","t","a","t","i","o","n">>,
        << <<"a","b","d","o","m","i","n","a","l"," ","u","l","t","r","a","s","o","u","n","d">>,
           <<"u","l","t","r","a","s","o","u","n","d"," ","a","b","d","o","m","e","n">>,
           <<"a","b","d","o","m","i","n","a","l"," ","u","s">> >>),
    MedicalCode("90471", "CPT", "immunization",
        <<"I","m","m","u","n","i","z","a","t","i","o","n"," ","a","d","m","i","n","i","s","t","r","a","t","i","o","n">>,
        << <<"v","a","c","c","i","n","a","t","i","o","n">>,
           <<"i","m","m","u","n","i","z","a","t","i","o","n">>,
           <<"v","a","c","c","i","n","e"," ","a","d","m","i","n","i","s","t","r","a","t","i","o","n">>,
           <<"s","h","o","t">> >>),
    MedicalCode("J7050", "HCPCS", "medication",
        <<"I","n","f","u","s","i","o","n",","," ","n","o","r","m","a","l"," ","s","a","l","i","n","e"," ","s","o","l","u","t","i","o","n",","," ","1","0","0","0"," ","c","c">>,
        << <<"n","o","r","m","a","l"," ","s","a","l","i","n","e">>,
           <<"s","a","l","i","n","e"," ","i","n","f","u","s","i","o","n">>,
           <<"i","v"," ","s","a","l","i","n","e">> >>),
    MedicalCode("A4253", "HCPCS", "supplies",
        <<"B","l","o","o","d"," ","g","l","u","c","o","s","e"," ","t","e","s","t"," ","o","r"," ","r","e","a","g","e","n","t"," ","s","t","r","i","p","s">>,
        << <<"g","l","u","c","o","s","e"," ","s","t","r","i","p","s">>,
           <<"b","l","o","o","d"," ","s","u","g","a","r"," ","s","t","r","i","p","s">>,
           <<"t","e","s","t"," ","s","t","r","i","p","s">> >>),
    MedicalCode("E0424", "HCPCS", "equipment",
        <<"S","t","a","t","i","o","n","a","r","y"," ","c","o","m","p","r","e","s","s","e","d"," ","g","a","s","e","o","u","s"," ","o","x","y","g","e","n"," ","s","y","s","t","e","m">>,
        << <<"o","x","y","g","e","n"," ","c","o","n","c","e","n","t","r","a","t","o","r">>,
           <<"o","x","y","g","e","n"," ","s","y","s","t","e","m">>,
           <<"h","o","m","e"," ","o","x","y","g","e","n">> >>) >>

\* The sequence of the pairs of a set, in the order of the loops that visit
\* them: by first component, then by second.
InLoopOrder(pairs) ==
    LET Before(p, q) == p[1] < q[1] \/ (p[1] = q[1] /\ p[2] < q[2])
    IN  <<>> \o [r \in 1..Cardinality(pairs) |->
                    CHOOSE p \in pairs : Cardinality({q \in pairs : Before(q, p)}) = r - 1]

\* The search terms add_code indexes a code under: its description, then its
\* synonyms, all in lower case.
SearchTerms(code) ==
    <<LowerChars(code.description)>>
    \o [i \in 1..Len(code.synonyms) |-> LowerChars(code.synonyms[i])]

\* The store after add_code(c) for each c of `cs` in turn, where no two of
\* `cs` have the same system and code: the codes in their order, and one item
\* of the index for each search term, in the order in which the terms are
\* first met, with one (system, code) for every time the term is met.
StoreOf(cs) ==
    LET met == UNION {{<<i, k>> : k \in 1..Len(SearchTerms(cs[i]))} : i \in 1..Len(cs)}
        TermAt(p) == SearchTerms(cs[p[1]])[p[2]]
        order == InLoopOrder(met)
        firsts == {r \in 1..Len(order) :
                      \A q \in 1..(r - 1) : TermAt(order[q]) # TermAt(order[r])}
        items == InLoopOrder({<<r, 1>> : r \in firsts})
        KeysOf(term) == InLoopOrder({p \in met : TermAt(p) = term})
    IN  [codes |-> cs,
         search_index |->
            [n \in 1..Len(items) |->
                LET term == TermAt(order[items[n][1]])
                    keys == KeysOf(term)
                IN  [term |-> term,
                     codes |-> [j \in 1..Len(keys) |->
                                   <<cs[keys[j][1]].system, cs[keys[j][1]].code>>]]]]

\* The store after MedicalCodeManager.__init__
InitialCodes == StoreOf(BasicCodes)

\* self.codes after self.codes[system_name][code.code] = code: the object of
\* an existing key is replaced where it stands, a new key goes behind the
\* codes of its system.
CodesWith(cs, code) ==
    LET same == {i \in 1..Len(cs) : cs[i].system = code.system /\ cs[i].code = code.code}
        ofSystem == {i \in 1..Len(cs) : cs[i].system = code.system}
        last == IF ofSystem = {} THEN Len(cs)
                ELSE CHOOSE i \in ofSystem : \A j \in ofSystem : j <= i
    IN  IF same # {}
        THEN [i \in 1..Len(cs) |-> IF i \in same THEN code ELSE cs[i]]
        ELSE SubSeq(cs, 1, last) \o <<code>> \o SubSeq(cs, last + 1, Len(cs))

\* One pass of the loop of add_code over search_terms: a term the index does
\* not have gets an empty list, and (system_name, code.code) is appended to
\* the list of the term.
IndexWithTerm(index, term, key) ==
    IF \E i \in 1..Len(index) : index[i].term = term
    THEN [i \in 1..Len(index) |->
             IF index[i].term = term
             THEN [term |-> term, codes |-> Append(index[i].codes, key)]
             ELSE index[i]]
    ELSE Append(index, [term |-> term, codes |-> <<key>>])

RECURSIVE IndexWithTerms(_, _, _)
IndexWithTerms(index, search_terms, key) ==
    IF search_terms = <<>> THEN index
    ELSE IndexWithTerms(IndexWithTerm(index, Head(search_terms), key),
                        Tail(search_terms), key)

\* add_code: the store after it.  Nothing is taken out of the index.
AddCode(cs, index, code) ==
    [codes |-> CodesWith(cs, code),
     search_index |-> IndexWithTerms(index, SearchTerms(code), <<code.system, code.code>>)]

\* lookup_code: the code object, or Null
LookupCode(cs, code, system) ==
    LET at == {i \in 1..Len(cs) : cs[i].system = system /\ cs[i].code = code}
    IN  IF at = {} THEN Null ELSE cs[CHOOSE i \in at : TRUE]

\* One entry of the results of search_codes.
SearchResult(code_obj, confidence, match_type) ==
    [code |-> code_obj.code, system |-> code_obj.system,
     description |-> code_obj.description, category |-> code_obj.category,
     confidence |-> confidence, match_type |-> match_type]

\* The results the two loops of search_codes append: for the item of the
\* index whose term is the query, then for every item whose term properly
\* contains it, one result for each of the item's codes that the system
\* filter lets through.  Confidence is 1.0, or len(query_lower) / len(term).
SearchResults(cs, index, query_lower, system) ==
    LET Passes(k, j) == system = Null \/ system = index[k].codes[j][1]
        Hits(items) == {<<k, j>> \in items \X (1..Len(cs) + 1) :
                           j <= Len(index[k].codes) /\ Passes(k, j)}
        exact == InLoopOrder(Hits({k \in 1..Len(index) : index[k].term = query_lower}))
        partial == InLoopOrder(Hits({k \in 1..Len(index) :
                                        /\ Contains(index[k].term, query_lower)
                                        /\ query_lower # index[k].term}))
        Object(p) == LookupCode(cs, index[p[1]].codes[p[2]][2], index[p[1]].codes[p[2]][1])
    IN  [i \in 1..Len(exact) |-> SearchResult(Object(exact[i]), 1000, "exact")]
        \o [i \in 1..Len(partial) |->
               SearchResult(Object(partial[i]),
                            (Len(query_lower) * 1000) \div Len(index[partial[i][1]].term),
                            "partial")]

\* The place in `results` of the first result of the key of results[i].
FirstOfKey(results, i) ==
    CHOOSE k \in 1..i :
        /\ results[k].system = results[i].system /\ results[k].code = results[i].code
        /\ \A j \in 1..(k - 1) :
              ~(results[j].system = results[i].system /\ results[j].code = results[i].code)

\* (variant of KeptOfKey that keeps the first result of a key)
KeptFirstOfKey(results, i) == FirstOfKey(results, i)

\* The place of the result that the loop over `results` leaves under the key
\* of results[i]: a result replaces the one kept when its confidence is
\* higher, so the first of the key's results of the highest confidence stays.
KeptOfKey(results, i) ==
    LET same == {k \in 1..Len(results) :
                    results[k].system = results[i].system
                    /\ results[k].code = results[i].code}
    IN  CHOOSE k \in same :
            /\ \A j \in same : results[j].confidence <= results[k].confidence
            /\ \A j \in same : j < k => results[j].confidence < results[k].confidence

\* unique_results.values(): one result for each key, in the order in which
\* the keys first occur.
UniqueResults(results) ==
    LET firsts == {i \in 1..Len(results) : FirstOfKey(results, i) = i}
        ordered == <<>> \o [r \in 1..Cardinality(firsts) |->
                               CHOOSE i \in firsts :
                                   Cardinality({j \in firsts : j < i}) = r - 1]
    IN  <<>> \o [r \in 1..Len(ordered) |-> results[KeptOfKey(results, ordered[r])]]

\* (variant of SortByConfidence that sorts by rising confidence)
SortByRisingConfidence(s) ==
    LET Before(j, i) == s[j].confidence < s[i].confidence
                        \/ (s[j].confidence = s[i].confidence /\ j < i)
    IN  <<>> \o [r \in 1..Len(s) |->
                    s[CHOOSE i \in 1..Len(s) :
                          Cardinality({j \in 1..Len(s) : Before(j, i)}) = r - 1]]

\* sorted(..., key=lambda x: x['confidence'], reverse=True): a stable sort by
\* falling confidence.
SortByConfidence(s) ==
    LET Before(j, i) == s[j].confidence > s[i].confidence
                        \/ (s[j].confidence = s[i].confidence /\ j < i)
    IN  <<>> \o [r \in 1..Len(s) |->
                    s[CHOOSE i \in 1..Len(s) :
                          Cardinality({j \in 1..Len(s) : Before(j, i)}) = r - 1]]

\* (variant of Truncate that returns the whole list)
NoTruncate(s, limit) == s

\* s[:limit], for limit >= 0
Truncate(s, limit) == SubSeq(s, 1, Min(limit, Len(s)))

\* search_codes
SearchCodes(cs, index, query, system, limit) ==
    LET query_lower == LowerChars(query)
        results == SearchResults(cs, index, query_lower, system)
    IN  Truncate(SortByConfidence(UniqueResults(results)), limit)

\* The characters \w matches: letters, digits and the underscore.
WordChars ==
    {UpperLetters[k] : k \in 1..Len(UpperLetters)}
    \cup {LowerLetters[k] : k \in 1..Len(LowerLetters)}
    \cup {"0", "1", "2", "3", "4", "5", "6", "7", "8", "9", "_"}

\* re.findall(r'\b\w+\b', t): the maximal runs of word characters, in order.
Words(t) ==
    LET IsWord(i) == t[i] \in WordChars
        starts == {i \in 1..Len(t) : IsWord(i) /\ (i = 1 \/ ~IsWord(i - 1))}
        EndOf(i) == CHOOSE j \in i..Len(t) :
                        /\ \A k \in i..j : IsWord(k)
                        /\ j = Len(t) \/ ~IsWord(j + 1)
        ordered == InLoopOrder({<<i, 1>> : i \in starts})
    IN  <<>> \o [n \in 1..Len(ordered) |-> SubSeq(t, ordered[n][1], EndOf(ordered[n][1]))]

\* match['match_type'] = match_type; match['confidence'] *= tenths / 10, for
\* every match of a list
Weighted(results, tenths, match_type) ==
    <<>> \o [i \in 1..Len(results) |->
                [results[i] EXCEPT !.confidence = (@ * tenths) \div 10,
                                   !.match_type = match_type]]

\* (variant of IsSignificant that lets every word through)
IsAnyWord(word) == TRUE

\* len(word) > 3
IsSignificant(word) == Len(word) > 3

\* The loop over the words of suggest_codes_for_text: the matches of every
\* word of more than three characters, weighted, in the order of the words.
RECURSIVE WordMatches(_, _, _)
WordMatches(cs, index, words) ==
    IF words = <<>> THEN <<>>
    ELSE (IF IsSignificant(Head(words))
          THEN Weighted(SearchCodes(cs, index, Head(words), Null, 2), 7, "word_match")
          ELSE <<>>)
         \o WordMatches(cs, index, Tail(words))

\* suggest_codes_for_text.  `if context:` is false for None and for the empty
\* string alike; both are the empty sequence here.
SuggestCodesForText(cs, index, txt, context) ==
    LET direct_matches == SearchCodes(cs, index, txt, Null, 5)
        word_matches == WordMatches(cs, index, Words(LowerChars(txt)))
        context_matches ==
            IF context # <<>>
            THEN Weighted(SearchCodes(cs, index, context, Null, 3), 6, "context_match")
            ELSE <<>>
        suggestions == direct_matches \o word_matches \o context_matches
    IN  Truncate(SortByConfidence(UniqueResults(suggestions)), 10)

\* (variant of MappingConfidence without the weight)
SearchConfidence(confidence) == confidence

\* match['confidence'] * 0.8
MappingConfidence(confidence) == (confidence * 8) \div 10

\* The loop over the synonyms of cross_map_codes: the matches of every
\* synonym in the target system, in the order of the synonyms.
RECURSIVE SynonymMatches(_, _, _, _)
SynonymMatches(cs, index, syns, target_system) ==
    IF syns = <<>> THEN <<>>
    ELSE SearchCodes(cs, index, Head(syns), target_system, 3)
         \o SynonymMatches(cs, index, Tail(syns), target_system)

\* cross_map_codes: nothing for a code that lookup_code does not find in the
\* source system; else the first match of every code among the matches of
\* the description and of the synonyms, in the order in which the codes are
\* first met, with its mapping confidence and its source.
CrossMapCodes(cs, index, code, source_system, target_system) ==
    IF \A i \in 1..Len(cs) : ~(cs[i].system = source_system /\ cs[i].code = code)
    THEN <<>>
    ELSE LET source_code == LookupCode(cs, code, source_system)
             target_matches ==
                 SearchCodes(cs, index, source_code.description, target_system, 5)
                 \o SynonymMatches(cs, index, source_code.synonyms, target_system)
             firsts == {i \in 1..Len(target_matches) :
                           \A j \in 1..(i - 1) :
                               target_matches[j].code # target_matches[i].code}
             ordered == InLoopOrder({<<i, 1>> : i \in firsts})
         IN  <<>> \o [n \in 1..Len(ordered) |->
                         LET match == target_matches[ordered[n][1]]
                         IN  match @@ [mapping_confidence |->
                                          MappingConfidence(match.confidence),
                                       source_code |-> code,
                                       source_system |-> source_system]]

\* validate_code: the code's fields when lookup_code finds `code` (written
\* `chars`) in the system, else up to three suggestions from search_codes.
ValidateCode(cs, index, code, chars, system) ==
    IF \E i \in 1..Len(cs) : cs[i].system = system /\ cs[i].code = code
    THEN LET code_obj == LookupCode(cs, code, system)
         IN  [is_valid |-> TRUE, code |-> code_obj.code, system |-> code_obj.system,
              description |-> code_obj.description, category |-> code_obj.category]
    ELSE [is_valid |-> FALSE, suggestions |-> SearchCodes(cs, index, chars, system, 3)]

\* (variant of IndexRead for an index that inserts the key it is read under,
\* as a defaultdict(list) does)
IndexReadInserting(index, key) ==
    IF \E i \in 1..Len(index) : index[i].term = key THEN index
    ELSE Append(index, [term |-> key, codes |-> <<>>])

\* self.search_index after search_codes has read it under `key`: the index is
\* a plain dict, read under a key only after `key in self.search_index`, and
\* iterated with items(); neither changes it.
IndexRead(index, key) == index

(***************************************************************************)
(* MedicalNLPEngine.process_medical_text: calls that share one engine and   *)
(* its executor.  A document is kept as what each extractor finds in it.    *)
(***************************************************************************)
\* ThreadPoolExecutor(max_workers=2)
Workers == 2

\* _extract_spacy_entities: a named entity (spaCy's PERSON, which
\* _map_spacy_label turns into PATIENT_NAME) and a match of a medication
\* pattern of the matcher
SpacyEntityKind ==
    [label |-> "PATIENT_NAME", text |-> <<"Smith">>,
     confidence |-> ConfSpacyEntity, normalized_form |-> <<"Smith">>]
SpacyPatternKind ==
    [label |-> "MEDICATION", text |-> <<"tablets">>,
     confidence |-> ConfSpacyPattern, normalized_form |-> <<"tablets">>]

\* What the extractors find in a document: the adapter's named entities
\* (doc.ents) and matcher matches, the regex matches and the terminology
\* matches, each a sequence of kind and span.
Document(ner, matcher, pattern, terminology) ==
    [ner |-> ner, matcher |-> matcher, pattern |-> pattern, terminology |-> terminology]

NoDocument == Document(<<>>, <<>>, <<>>, <<>>)

\* A call of process_medical_text: where it is, its document, how the adapter
\* call ended, and the locals `entities` and `result` of _process_text_sync.
Call(pc, doc, outcome, ents, result) ==
    [pc |-> pc, doc |-> doc, outcome |-> outcome, entities |-> ents, result |-> result]

\* entities.extend(found): the new objects take the next places of the list.
AppendFound(list, found) ==
    list \o [i \in 1..Len(found) |->
                MedicalEntity(Len(list) + i, found[i][1], found[i][2])]

\* The positions of a call whose _process_text_sync occupies a worker.
Working == {"spacy", "in_adapter", "pattern", "terminology", "normalize"}

\* (variant of ExtendOwn in which the engine keeps one list, self.entities,
\* that every call in a worker extends)
ExtendShared(cs, c, found) ==
    [d \in DOMAIN cs |->
        IF d = c \/ cs[d].pc \in Working
        THEN [cs[d] EXCEPT !.entities = AppendFound(@, found)]
        ELSE cs[d]]

\* entities.extend(found) on the list that is local to the call
ExtendOwn(cs, c, found) ==
    [cs EXCEPT ![c].entities = AppendFound(@, found)]

\* What _extract_spacy_entities returns: everything it found when the
\* adapter returns, nothing when nlp_model(text) raises, and the named
\* entities appended before the failure when the matcher raises.
SpacyEntities(doc, outcome) ==
    CASE outcome = "returned" -> doc.ner \o doc.matcher
      [] outcome = "model_raised" -> <<>>
      [] outcome = "matcher_raised" -> doc.ner
      [] OTHER -> <<>>

(***************************************************************************)
(* MedicalNLPEngine.__init__ and _initialize_engine,                       *)
(* MedicalNLPService.__init__ and _initialize_service                      *)
(***************************************************************************)

\* The engine: where its initialization task is, and whether each dictionary
\* is the empty one of __init__ ("empty") or the one its loader assigns
\* ("loaded").
Engine(task, medical_terminology, abbrevs, medical_codes) ==
    [task |-> task, medical_terminology |-> medical_terminology,
     abbreviations |-> abbrevs, medical_codes |-> medical_codes]

\* A call: where it is, whether it came through the service, and what it
\* read of self.abbreviations, self.medical_terminology and
\* self.medical_codes ("unread" before the read).
Request(pc, via, read) == [pc |-> pc, via |-> via, read |-> read]

NothingRead ==
    [abbreviations |-> "unread", medical_terminology |-> "unread",
     medical_codes |-> "unread"]

\* The event loop runs one coroutine at a time, and _initialize_engine never
\* suspends (its loaders await nothing that yields): no other coroutine
\* runs between its first and its last step.
LoopFree == engine.task \in {"created", "done"}

(***************************************************************************)
(* States of the components that a specification leaves alone.             *)
(***************************************************************************)
NoVocabulary ==
    terms = <<>> /\ synonyms = EmptyDict /\ abbreviations = EmptyDict /\ added = 0
NoPipeline == entities = <<>> /\ normalized = <<>> /\ enhanced = <<>>
NoExpansion ==
    manager = Null /\ text = <<>> /\ expanded = <<>> /\ reexpanded = <<>>
NoForm == extracted_fields = <<>> /\ form_type = Null /\ form_result = Null
NoFields == field_types = <<>> /\ matches = <<>> /\ extraction = <<>>
NoRequest == [op |-> "none"]
NoCodes ==
    /\ code_table = <<>> /\ search_index = <<>>
    /\ request = NoRequest /\ response = <<>>

NoCalls == adapter = "absent" /\ calls = <<>>

\* The engine and the service after their initialization, with no call
\* under way.
Initialized ==
    /\ engine = Engine("done", "loaded", "loaded", "loaded")
    /\ is_initialized = TRUE
    /\ requests = <<>>

(***************************************************************************)
(* SpecResolve: _normalize_entities on every candidate list of the bounds. *)
(***************************************************************************)
InitResolve ==
    /\ stage = "candidates"
    /\ entities \in CandidateLists({BloodPressureKind, MainTermKind, AbbreviationKind},
                                   MaxCands)
    /\ normalized = <<>>
    /\ enhanced = <<>>
    /\ NoVocabulary /\ NoExpansion /\ NoForm /\ NoFields /\ NoCodes /\ NoCalls /\ Initialized

\* entities = self._normalize_entities(entities); the argument is sorted in
\* place.
NormalizeEntitiesCall ==
    /\ stage = "candidates"
    /\ stage' = "resolved"
    /\ entities' = SortByStart(entities)
    /\ normalized' = NormalizeEntities(entities)
    /\ UNCHANGED <<enhanced, vocabVars, expandVars, formVars, fieldVars, codeVars, callVars, bootVars>>

NextResolve == NormalizeEntitiesCall

SpecResolve == InitResolve /\ [][NextResolve]_vars

(***************************************************************************)
(* SpecPipeline: the Vocabulary Store, add_term and                        *)
(* process_medical_document (process_medical_text, then the terminology    *)
(* enhancement of its entities).                                           *)
(***************************************************************************)
\* Terms a deployment adds with add_term / load_custom_terminology.
CustomTerms == {
    MedicalTerm(<<"Normal", "blood", "pressure">>, "vital_signs",
                << <<"120/80">> >>, <<>>, <<>>),
    MedicalTerm(<<"Sepsis">>, "infection", <<>>, <<>>, <<"A41">>) }

InitPipeline ==
    /\ stage = "ready"
    /\ terms = InitialStore.terms
    /\ synonyms = InitialStore.synonyms
    /\ abbreviations = InitialStore.abbreviations
    /\ added = 0
    /\ NoPipeline /\ NoExpansion /\ NoForm /\ NoFields /\ NoCodes /\ NoCalls /\ Initialized

AddTerm(t) ==
    /\ stage = "ready"
    /\ added < MaxAddTerm
    /\ LET store == AddTermTo([terms |-> terms, synonyms |-> synonyms,
                               abbreviations |-> abbreviations], t)
       IN  /\ terms' = store.terms
           /\ synonyms' = store.synonyms
           /\ abbreviations' = store.abbreviations
    /\ added' = added + 1
    /\ UNCHANGED <<stage, pipeVars, expandVars, formVars, fieldVars, codeVars, callVars, bootVars>>

\* process_medical_document on a document in which the extractors find `cands`
ProcessMedicalDocument(cands) ==
    /\ stage = "ready"
    /\ stage' = "processed"
    /\ entities' = cands
    /\ normalized' = NormalizeEntities(cands)
    /\ enhanced' = EnhanceEntities(terms, synonyms, abbreviations, normalized')
    /\ UNCHANGED <<vocabVars, expandVars, formVars, fieldVars, codeVars, callVars, bootVars>>

\* The result is returned; the request's values are discarded with it.
ReturnResult ==
    /\ stage = "processed"
    /\ stage' = "ready"
    /\ entities' = <<>>
    /\ normalized' = <<>>
    /\ enhanced' = <<>>
    /\ UNCHANGED <<vocabVars, expandVars, formVars, fieldVars, codeVars, callVars, bootVars>>

DocumentKinds ==
    {BloodPressureKind, DosageKind, MainTermKind, SynonymKind, AbbreviationKind}

NextPipeline ==
    \/ \E t \in CustomTerms : AddTerm(t)
    \/ \E cands \in CandidateLists(DocumentKinds, MaxDocCands) :
          ProcessMedicalDocument(cands)
    \/ ReturnResult

SpecPipeline == InitPipeline /\ [][NextPipeline]_vars

(***************************************************************************)
(* SpecExpand: either expander, once and then again on its own output, on  *)
(* every text of at most MaxTokens tokens.                                 *)
(***************************************************************************)
MaxTokens == 2

\* Abbreviations of either table, words of their expansions, other words.
SampleWords ==
    {"bp", "nsaid", "po", "htn", "dm", "diabetes", "mellitus", "cardiac",
     "blood", "pt"}

\* Plain, "bp." , "(bp)" and "b.p"
PunctuationShapes ==
    { <<<<>>, <<>>, <<>>>>, <<<<>>, <<>>, <<".">>>>,
      <<<<"(">>, <<>>, <<")">>>>, <<<<>>, <<".">>, <<>>>> }

SampleTokens ==
    {Token(w, c, sh[1], sh[2], sh[3]) :
        w \in SampleWords, c \in {"upper", "title", "lower", "mixed"},
        sh \in PunctuationShapes}

\* self.abbreviations of the object whose method runs
AbbreviationTable ==
    IF manager = "engine" THEN EngineAbbreviations ELSE abbreviations

InitExpand ==
    /\ stage = "text"
    /\ manager \in {"engine", "terminology"}
    /\ text \in SeqsUpTo(SampleTokens, MaxTokens)
    /\ expanded = <<>>
    /\ reexpanded = <<>>
    /\ terms = InitialStore.terms
    /\ synonyms = InitialStore.synonyms
    /\ abbreviations = InitialStore.abbreviations
    /\ added = 0
    /\ NoPipeline /\ NoForm /\ NoFields /\ NoCodes /\ NoCalls /\ Initialized

\* expanded = expand(text)
Expand ==
    /\ stage = "text"
    /\ stage' = "expanded"
    /\ expanded' = ExpandAbbreviations(AbbreviationTable, text)
    /\ UNCHANGED <<manager, text, reexpanded, vocabVars, pipeVars, formVars, fieldVars, codeVars, callVars, bootVars>>

\* reexpanded = expand(expanded)
ExpandAgain ==
    /\ stage = "expanded"
    /\ stage' = "reexpanded"
    /\ reexpanded' = ExpandAbbreviations(AbbreviationTable, expanded)
    /\ UNCHANGED <<manager, text, expanded, vocabVars, pipeVars, formVars, fieldVars, codeVars, callVars, bootVars>>

NextExpand == Expand \/ ExpandAgain

SpecExpand == InitExpand /\ [][NextExpand]_vars

(***************************************************************************)
(* SpecForm: map_to_form on what extract_fields hands it in the auto-fill  *)
(* route, for every registered form type and an unregistered one.          *)
(***************************************************************************)
\* Keys of extract_fields results, in the order of field_patterns.
ExtractedNames ==
    <<"patient_name", "date_of_birth", "age", "medical_record_number",
      "insurance_id", "primary_diagnosis", "chief_complaint", "medications",
      "allergies">>

\* Confidences the field extractor gives: its lowest bonus and its cap.
ExtractedConfidences ==
    {FieldBaseConfidence + DocumentStartBonus, MaxFieldConfidence}

\* The items of an extracted_fields dict: a subsequence of ExtractedNames,
\* each name with a non-empty value and a confidence.
RECURSIVE ExtractedDicts(_)
ExtractedDicts(names) ==
    IF names = <<>> THEN {<<>>}
    ELSE LET rest == ExtractedDicts(Tail(names))
         IN  rest \cup
             {<<[name |-> Head(names), value |-> "text", confidence |-> c]>> \o d :
                 c \in ExtractedConfidences, d \in rest}

FormTypes == DOMAIN FormTemplates \cup {"unknown_form"}

InitForm ==
    /\ stage = "call"
    /\ extracted_fields \in ExtractedDicts(ExtractedNames)
    /\ form_type \in FormTypes
    /\ form_result = Null
    /\ NoVocabulary /\ NoPipeline /\ NoExpansion /\ NoFields /\ NoCodes /\ NoCalls /\ Initialized

\* form_result = await form_mapper.map_to_form(extracted_fields, form_type)
MapToFormCall ==
    /\ stage = "call"
    /\ stage' = "mapped"
    /\ form_result' = MapToForm(extracted_fields, form_type)
    /\ UNCHANGED <<extracted_fields, form_type, vocabVars, pipeVars, expandVars,
                   fieldVars, codeVars, callVars, bootVars>>

NextForm == MapToFormCall

SpecForm == InitForm /\ [][NextForm]_vars

(***************************************************************************)
(* SpecFields: _extract_fields_sync on a document of DocumentLength         *)
(* characters in which each pattern of a requested label finds at most     *)
(* MaxMatches matches.                                                     *)
(***************************************************************************)
MaxMatches == 3
DocumentLength == 100
MatchLength == 8        \* no pattern of field_patterns matches under 3 characters

\* A match at the start of the document and one in its middle.
MatchStarts == {0, DocumentLength \div 2}

\* The field_types argument: labels with patterns, a label without, and both.
FieldTypeRequests ==
    { <<"patient_name">>, <<"age">>, <<"allergies">>, <<"lab_results">>,
      <<"lab_results", "age">>, <<"allergies", "lab_results">>,
      <<"age", "allergies">> }

\* What finditer can yield for one label: the matches come pattern by
\* pattern and, for one pattern, from left to right without overlap.
MatchLists(field_type) ==
    LET patterns == FieldPatterns[field_type]
        one == {Match(p, s, MatchLength, v) :
                    p \in 1..Len(patterns), s \in MatchStarts, v \in {"", "text"}}
        real == {m \in one : m.value = "" => patterns[m.pattern].free_text}
    IN  {ms \in SeqsUpTo(real, MaxMatches) :
            \A i, j \in 1..Len(ms) :
                i < j => \/ ms[i].pattern < ms[j].pattern
                         \/ /\ ms[i].pattern = ms[j].pattern
                            /\ ms[i].start + ms[i].length <= ms[j].start}

\* The requested labels that have patterns.
Patterned(types) == Range(types) \cap DOMAIN FieldPatterns

InitFields ==
    /\ stage = "request"
    /\ field_types \in FieldTypeRequests
    /\ \E found \in [Patterned(field_types) -> UNION {MatchLists(t) : t \in Patterned(field_types)}] :
          /\ \A t \in Patterned(field_types) : found[t] \in MatchLists(t)
          /\ matches = found
    /\ extraction = <<>>
    /\ NoVocabulary /\ NoPipeline /\ NoExpansion /\ NoForm /\ NoCodes /\ NoCalls /\ Initialized

\* result = self._extract_fields_sync(text, field_types)
ExtractFieldsSyncCall ==
    /\ stage = "request"
    /\ stage' = "extracted"
    /\ extraction' = ExtractFieldsSync(field_types, matches, DocumentLength)
    /\ UNCHANGED <<field_types, matches, vocabVars, pipeVars, expandVars, formVars, codeVars, callVars, bootVars>>

NextFields == ExtractFieldsSyncCall

SpecFields == InitFields /\ [][NextFields]_vars

(***************************************************************************)
(* SpecTerminology: _extract_terminology_entities on every text of at most *)
(* MaxTextWords words.                                                     *)
(***************************************************************************)
MaxTextWords == 3

TextWords ==
    {"hypertension", "Hypertension", "high", "blood", "pressure", "migraine", "and",
     "I-dotted"}

InitTerminology ==
    /\ stage = "text"
    /\ text \in SeqsUpTo(TextWords, MaxTextWords)
    /\ manager = Null /\ expanded = <<>> /\ reexpanded = <<>>
    /\ NoVocabulary /\ NoPipeline /\ NoForm /\ NoFields /\ NoCodes /\ NoCalls /\ Initialized

\* terminology_entities = self._extract_terminology_entities(normalized_text)
ExtractTerminologyEntitiesCall ==
    /\ stage = "text"
    /\ stage' = "matched"
    /\ entities' = ExtractTerminologyEntities(text)
    /\ UNCHANGED <<normalized, enhanced, vocabVars, expandVars, formVars, fieldVars, codeVars, callVars, bootVars>>

NextTerminology == ExtractTerminologyEntitiesCall

SpecTerminology == InitTerminology /\ [][NextTerminology]_vars

(***************************************************************************)
(* SpecCalls: process_medical_text calls on one engine, interleaved on the  *)
(* event loop and the executor's workers, with every outcome of the         *)
(* adapter call.                                                            *)
(***************************************************************************)
MaxCalls == 2       \* calls in flight on the engine

CallIds == 1..MaxCalls

\* A document with entities of every extractor, the adapter's overlapping a
\* terminology match of the same confidence, and one without any for the
\* adapter.
Documents == {
    Document(<< <<SpacyEntityKind, <<0, 2>> >> >>,
             << <<SpacyPatternKind, <<2, 3>> >> >>,
             << <<DosageKind, <<2, 3>> >> >>,
             << <<SynonymKind, <<0, 1>> >> >>),
    Document(<<>>, <<>>,
             << <<BloodPressureKind, <<0, 1>> >> >>,
             << <<MainTermKind, <<1, 3>> >>, <<SynonymKind, <<2, 3>> >> >>) }

InitCalls ==
    /\ stage = "serving"
    /\ adapter \in {"absent", "loaded"}
    /\ calls = [c \in CallIds |-> Call("idle", NoDocument, "none", <<>>, <<>>)]
    /\ NoVocabulary /\ NoPipeline /\ NoExpansion /\ NoForm /\ NoFields /\ NoCodes
    /\ Initialized

CallFrame == UNCHANGED <<stage, adapter, vocabVars, pipeVars, expandVars, formVars,
                         fieldVars, codeVars, bootVars>>

\* await loop.run_in_executor(self.executor, self._process_text_sync, text)
Submit(c, doc) ==
    /\ calls[c].pc = "idle"
    /\ calls' = [calls EXCEPT ![c] = Call("queued", doc, "none", <<>>, <<>>)]
    /\ CallFrame

\* A free worker takes the call: entities = [], abbreviations expanded.
StartWork(c) ==
    /\ calls[c].pc = "queued"
    /\ Cardinality({d \in CallIds : calls[d].pc \in Working}) < Workers
    /\ calls' = [calls EXCEPT ![c].pc = "spacy"]
    /\ CallFrame

\* if self.nlp_model is not None: ... is skipped
SkipAdapter(c) ==
    /\ calls[c].pc = "spacy"
    /\ adapter = "absent"
    /\ calls' = [calls EXCEPT ![c].pc = "pattern"]
    /\ CallFrame

\* _extract_spacy_entities returns: the adapter call has returned, raised in
\* nlp_model(text), or raised in the matcher.
AdapterEnds(c, outcome) ==
    /\ calls[c].pc = "spacy"
    /\ adapter = "loaded"
    /\ calls' = [ExtendOwn(calls, c, SpacyEntities(calls[c].doc, outcome))
                    EXCEPT ![c].pc = "pattern", ![c].outcome = outcome]
    /\ CallFrame

\* doc = self.nlp_model(text) does not return.
AdapterBlocks(c) ==
    /\ calls[c].pc = "spacy"
    /\ adapter = "loaded"
    /\ calls' = [calls EXCEPT ![c].pc = "in_adapter"]
    /\ CallFrame

\* entities.extend(self._extract_pattern_entities(normalized_text))
PatternStep(c) ==
    /\ calls[c].pc = "pattern"
    /\ calls' = [ExtendOwn(calls, c, calls[c].doc.pattern) EXCEPT ![c].pc = "terminology"]
    /\ CallFrame

\* entities.extend(self._extract_terminology_entities(normalized_text))
TerminologyStep(c) ==
    /\ calls[c].pc = "terminology"
    /\ calls' = [ExtendOwn(calls, c, calls[c].doc.terminology) EXCEPT ![c].pc = "normalize"]
    /\ CallFrame

\* entities = self._normalize_entities(entities), which sorts its argument
\* in place, and the result dict is built.
NormalizeStep(c) ==
    /\ calls[c].pc = "normalize"
    /\ calls' = [calls EXCEPT ![c].pc = "finished",
                              ![c].entities = SortByStart(@),
                              ![c].result = NormalizeEntities(calls[c].entities)]
    /\ CallFrame

\* The await of process_medical_text resumes with the result.
ReturnCall(c) ==
    /\ calls[c].pc = "finished"
    /\ calls' = [calls EXCEPT ![c].pc = "returned"]
    /\ CallFrame

\* The steps the executor and the event loop take by themselves.
EngineStep(c) ==
    \/ StartWork(c)
    \/ SkipAdapter(c)
    \/ \E outcome \in {"returned", "model_raised", "matcher_raised"} : AdapterEnds(c, outcome)
    \/ PatternStep(c)
    \/ TerminologyStep(c)
    \/ NormalizeStep(c)
    \/ ReturnCall(c)

NextCalls ==
    \/ \E c \in CallIds, doc \in Documents : Submit(c, doc)
    \/ \E c \in CallIds : EngineStep(c)
    \/ \E c \in CallIds : AdapterBlocks(c)

SpecCalls == InitCalls /\ [][NextCalls]_vars

\* The executor's threads and the event loop keep running: a step of a call
\* that stays possible is taken.
SpecCallsFair == SpecCalls /\ \A c \in CallIds : WF_vars(EngineStep(c))

(***************************************************************************)
(* SpecBoot: the engine and the service from their construction on: the    *)
(* initialization task on the event loop, calls of process_medical_text    *)
(* and of process_medical_document, and the executor's workers.            *)
(***************************************************************************)
MaxRequests == 2    \* calls made after construction

RequestIds == 1..MaxRequests

\* After MedicalNLPService() (which constructs the engine): the dictionaries
\* are empty, and both initialization tasks are created and have not run.
InitBoot ==
    /\ stage = "constructed"
    /\ engine = Engine("created", "empty", "empty", "empty")
    /\ is_initialized = FALSE
    /\ requests = [c \in RequestIds |-> Request("idle", "none", NothingRead)]
    /\ adapter = "absent" /\ calls = <<>>
    /\ NoVocabulary /\ NoPipeline /\ NoExpansion /\ NoForm /\ NoFields /\ NoCodes

BootFrame == UNCHANGED <<stage, calls, vocabVars, pipeVars, expandVars, formVars,
                         fieldVars, codeVars>>

\* _initialize_engine starts: _load_spacy_models finds a model or none (or
\* spaCy is not installed).
LoadSpacyModels ==
    /\ engine.task = "created"
    /\ engine' = [engine EXCEPT !.task = "terminology"]
    /\ adapter' \in {"absent", "loaded"}
    /\ UNCHANGED <<is_initialized, requests>>
    /\ BootFrame

LoadMedicalTerminology ==
    /\ engine.task = "terminology"
    /\ engine' = [engine EXCEPT !.task = "abbreviations",
                                !.medical_terminology = "loaded"]
    /\ UNCHANGED <<adapter, is_initialized, requests>>
    /\ BootFrame

LoadMedicalAbbreviations ==
    /\ engine.task = "abbreviations"
    /\ engine' = [engine EXCEPT !.task = "codes", !.abbreviations = "loaded"]
    /\ UNCHANGED <<adapter, is_initialized, requests>>
    /\ BootFrame

LoadMedicalCodes ==
    /\ engine.task = "codes"
    /\ engine' = [engine EXCEPT !.task = "done", !.medical_codes = "loaded"]
    /\ UNCHANGED <<adapter, is_initialized, requests>>
    /\ BootFrame

\* The task of MedicalNLPService.__init__: _initialize_service sleeps one
\* second and sets is_initialized. The engine's task was created before it
\* and is run by the loop before the sleep ends.
InitializeService ==
    /\ engine.task = "done"
    /\ ~is_initialized
    /\ is_initialized' = TRUE
    /\ UNCHANGED <<adapter, engine, requests>>
    /\ BootFrame

\* engine.process_medical_text(text): _process_text_sync is handed to the
\* executor and the caller awaits it.
ProcessMedicalTextCall(c) ==
    /\ LoopFree
    /\ requests[c].pc = "idle"
    /\ requests' = [requests EXCEPT ![c] = Request("queued", "engine", NothingRead)]
    /\ UNCHANGED <<adapter, engine, is_initialized>>
    /\ BootFrame

\* service.process_medical_document(text): `if not self.is_initialized: await
\* self._initialize_service()`, then the engine's process_medical_text.
ProcessMedicalDocumentCall(c) ==
    /\ LoopFree
    /\ requests[c].pc = "idle"
    /\ requests' = [requests EXCEPT ![c] =
                        Request(IF is_initialized THEN "queued" ELSE "sleeping",
                                "service", NothingRead)]
    /\ UNCHANGED <<adapter, engine, is_initialized>>
    /\ BootFrame

\* asyncio.sleep(1) of the call's own _initialize_service ends: the loop has
\* run the engine's task by then. is_initialized is set and the text goes
\* to the engine.
InitializeServiceReturns(c) ==
    /\ engine.task = "done"
    /\ requests[c].pc = "sleeping"
    /\ is_initialized' = TRUE
    /\ requests' = [requests EXCEPT ![c].pc = "queued"]
    /\ UNCHANGED <<adapter, engine>>
    /\ BootFrame

\* The positions of a call whose _process_text_sync occupies a worker.
AtWork == {"expand", "extract", "terminology", "codes"}

\* A free worker thread takes the call. The threads of the executor run
\* beside the event loop, also while _initialize_engine runs.
TakeRequest(c) ==
    /\ requests[c].pc = "queued"
    /\ Cardinality({d \in RequestIds : requests[d].pc \in AtWork}) < Workers
    /\ requests' = [requests EXCEPT ![c].pc = "expand"]
    /\ UNCHANGED <<adapter, engine, is_initialized>>
    /\ BootFrame

\* _expand_abbreviations reads self.abbreviations
ReadAbbreviations(c) ==
    /\ requests[c].pc = "expand"
    /\ requests' = [requests EXCEPT ![c].pc = "extract",
                                    ![c].read.abbreviations = engine.abbreviations]
    /\ UNCHANGED <<adapter, engine, is_initialized>>
    /\ BootFrame

\* The adapter step and _extract_pattern_entities read no dictionary.
ExtractWithoutDictionary(c) ==
    /\ requests[c].pc = "extract"
    /\ requests' = [requests EXCEPT ![c].pc = "terminology"]
    /\ UNCHANGED <<adapter, engine, is_initialized>>
    /\ BootFrame

\* _extract_terminology_entities reads self.medical_terminology
ReadTerminology(c) ==
    /\ requests[c].pc = "terminology"
    /\ requests' = [requests EXCEPT
                        ![c].pc = "codes",
                        ![c].read.medical_terminology = engine.medical_terminology]
    /\ UNCHANGED <<adapter, engine, is_initialized>>
    /\ BootFrame

\* _map_to_medical_codes reads self.medical_codes; the result is built.
ReadCodes(c) ==
    /\ requests[c].pc = "codes"
    /\ requests' = [requests EXCEPT ![c].pc = "finished",
                                    ![c].read.medical_codes = engine.medical_codes]
    /\ UNCHANGED <<adapter, engine, is_initialized>>
    /\ BootFrame

\* The await of process_medical_text resumes on the event loop.
ReturnRequest(c) ==
    /\ LoopFree
    /\ requests[c].pc = "finished"
    /\ requests' = [requests EXCEPT ![c].pc = "returned"]
    /\ UNCHANGED <<adapter, engine, is_initialized>>
    /\ BootFrame

NextBoot ==
    \/ LoadSpacyModels
    \/ LoadMedicalTerminology
    \/ LoadMedicalAbbreviations
    \/ LoadMedicalCodes
    \/ InitializeService
    \/ \E c \in RequestIds :
          \/ ProcessMedicalTextCall(c)
          \/ ProcessMedicalDocumentCall(c)
          \/ InitializeServiceReturns(c)
          \/ TakeRequest(c)
          \/ ReadAbbreviations(c)
          \/ ExtractWithoutDictionary(c)
          \/ ReadTerminology(c)
          \/ ReadCodes(c)
          \/ ReturnRequest(c)

SpecBoot == InitBoot /\ [][NextBoot]_vars

(***************************************************************************)
(* SpecCodes: the query operations of MedicalCodeManager on the store that *)
(* __init__ builds.                                                        *)
(***************************************************************************)
\* Queries: synonyms, a synonym in upper case, words of several terms, the
\* empty string, a synonym equal to its code's description, a description
\* shared by two codes, part of several synonyms, and a word of no term.
SearchQueries == {
      <<"h","y","p","e","r","t","e","n","s","i","o","n">>,
      <<"H","T","N">>,
      <<"m","i">>,
      <<"b","l","o","o","d">>,
      <<"f","e","v","e","r">>,
      <<>>,
      <<"e","n","d"," ","s","t","a","g","e"," ","r","e","n","a","l"," ","d","i","s","e","a","s","e">>,
      <<"o","f","f","i","c","e"," ","o","r"," ","o","t","h","e","r"," ","o","u","t","p","a","t","i","e","n","t"," ","v","i","s","i","t"," ","f","o","r"," ","e","v","a","l","u","a","t","i","o","n"," ","a","n","d"," ","m","a","n","a","g","e","m","e","n","t">>,
      <<"x","-","r","a","y">>,
      <<"z","z","z">> }

\* CodeSystem values: systems with codes, one without, and no filter.
SystemFilters == {Null, "ICD-10-CM", "CPT", "HCPCS", "LOINC"}

\* The limits the callers of search_codes pass, and its default.
SearchLimits == {2, 3, 5, 10}

InitCodes ==
    /\ stage = "ready"
    /\ code_table = InitialCodes.codes
    /\ search_index = InitialCodes.search_index
    /\ request = NoRequest
    /\ response = <<>>
    /\ NoVocabulary /\ NoPipeline /\ NoExpansion /\ NoForm /\ NoFields /\ NoCalls /\ Initialized

\* search_codes(query, system, limit)
SearchCodesCall(query, system, limit) ==
    /\ stage = "ready"
    /\ stage' = "answered"
    /\ request' = [op |-> "search_codes", query |-> query, system |-> system,
                   limit |-> limit]
    /\ response' = SearchCodes(code_table, search_index, query, system, limit)
    /\ search_index' = IndexRead(search_index, LowerChars(query))
    /\ UNCHANGED <<code_table, vocabVars, pipeVars, expandVars, formVars, fieldVars,
                   callVars, bootVars>>

\* The caller takes the answer.
ReturnAnswer ==
    /\ stage = "answered"
    /\ stage' = "ready"
    /\ request' = NoRequest
    /\ response' = <<>>
    /\ UNCHANGED <<code_table, search_index, vocabVars, pipeVars, expandVars, formVars,
                   fieldVars, callVars, bootVars>>

\* Texts to code: two significant words, an indexed synonym, a short word next
\* to a significant one, upper case with punctuation, words of several codes,
\* no significant word, and words of more than ten codes.
SuggestTexts == {
      <<"d","i","a","b","e","t","e","s"," ","a","c","h","e"," ","o","f"," ","a","c","u","t","e"," ","b","l","o","o","d"," ","c","o","m","p","r","e","h","e","n","s","i","v","e"," ","e","x","a","m","i","n","a","t","i","o","n">>,
      <<"c","h","e","s","t"," ","p","a","i","n">>,
      <<"h","i","g","h"," ","b","l","o","o","d"," ","p","r","e","s","s","u","r","e">>,
      <<"f","l","u"," ","s","h","o","t">>,
      <<"F","e","v","e","r",","," ","M","I">>,
      <<"d","i","a","b","e","t","e","s"," ","x","-","r","a","y"," ","o","f"," ","c","h","e","s","t">>,
      <<"t","h","e"," ","a","n","d">> }

\* Contexts: none, and phrases with several, one and no match.
SuggestContexts == {
      <<>>,
      <<"b","l","o","o","d">>,
      <<"d","i","a","b","e","t","e","s"," ","m","e","l","l","i","t","u","s">>,
      <<"z","z","z">> }

\* suggest_codes_for_text(text, context)
SuggestCodesForTextCall(txt, context) ==
    /\ stage = "ready"
    /\ stage' = "answered"
    /\ request' = [op |-> "suggest_codes_for_text", text |-> txt, context |-> context]
    /\ response' = SuggestCodesForText(code_table, search_index, txt, context)
    /\ UNCHANGED <<code_table, search_index, vocabVars, pipeVars, expandVars, formVars,
                   fieldVars, callVars, bootVars>>

\* Codes to map: of ICD-10-CM with and without matches elsewhere, of CPT, and
\* an unknown one.
MappedCodes == {"I21.9", "E11.9", "I10", "99213", "Z99.9"}

\* The systems the built-in codes belong to.
CodeSystems == {"ICD-10-CM", "CPT", "HCPCS"}

\* cross_map_codes(code, source_system, target_system)
CrossMapCodesCall(code, source_system, target_system) ==
    /\ stage = "ready"
    /\ stage' = "answered"
    /\ request' = [op |-> "cross_map_codes", code |-> code,
                   source_system |-> source_system, target_system |-> target_system]
    /\ response' = CrossMapCodes(code_table, search_index, code, source_system,
                                 target_system)
    /\ UNCHANGED <<code_table, search_index, vocabVars, pipeVars, expandVars, formVars,
                   fieldVars, callVars, bootVars>>

\* Codes to validate, each with its characters: known, unknown but found in a
\* description, and unknown.
ValidatedCodes == {
    [code |-> "I10", chars |-> <<"I","1","0">>],
    [code |-> "fever", chars |-> <<"f","e","v","e","r">>],
    [code |-> "Z99.9", chars |-> <<"Z","9","9",".","9">>] }

\* validate_code(code, system)
ValidateCodeCall(v, system) ==
    /\ stage = "ready"
    /\ stage' = "answered"
    /\ request' = [op |-> "validate_code", code |-> v.code, system |-> system]
    /\ response' = ValidateCode(code_table, search_index, v.code, v.chars, system)
    /\ search_index' =
          IF \E i \in 1..Len(code_table) :
                code_table[i].system = system /\ code_table[i].code = v.code
          THEN search_index
          ELSE IndexRead(search_index, LowerChars(v.chars))
    /\ UNCHANGED <<code_table, vocabVars, pipeVars, expandVars, formVars, fieldVars,
                   callVars, bootVars>>

NextCodes ==
    \/ \E query \in SearchQueries, system \in SystemFilters, limit \in SearchLimits :
          SearchCodesCall(query, system, limit)
    \/ \E v \in ValidatedCodes, system \in CodeSystems : ValidateCodeCall(v, system)
    \/ \E code \in MappedCodes, source_system \in CodeSystems,
          target_system \in CodeSystems :
          CrossMapCodesCall(code, source_system, target_system)
    \/ \E txt \in SuggestTexts, context \in SuggestContexts :
          SuggestCodesForTextCall(txt, context)
    \/ ReturnAnswer

SpecCodes == InitCodes /\ [][NextCodes]_vars

(***************************************************************************)
(* SpecCodeStore: the code manager under add_code and search_codes, from    *)
(* the store __init__ builds.                                               *)
(***************************************************************************)
\* add_code calls of one run.
MaxAddCode == 2

\* Codes to add: I10 again under another description and without synonyms,
\* I10 again with one of its synonyms kept, and a code the store does not have.
AddedCodes == {
    MedicalCode("I10", "ICD-10-CM", "cardiovascular",
        <<"P","r","i","m","a","r","y"," ","h","y","p","e","r","t","e","n","s","i","o","n">>,
        <<>>),
    MedicalCode("I10", "ICD-10-CM", "cardiovascular",
        <<"H","y","p","e","r","t","e","n","s","i","o","n">>,
        << <<"h","t","n">> >>),
    MedicalCode("R05", "ICD-10-CM", "symptoms",
        <<"C","o","u","g","h">>,
        << <<"c","o","u","g","h","i","n","g">> >>) }

\* Queries: synonyms of the first I10, words of the added descriptions, and a
\* word of no term.
StoreQueries == {
      <<"h","t","n">>,
      <<"h","i","g","h"," ","b","l","o","o","d"," ","p","r","e","s","s","u","r","e">>,
      <<"e","s","s","e","n","t","i","a","l">>,
      <<"P","r","i","m","a","r","y">>,
      <<"c","o","u","g","h">>,
      <<"z","z","z">> }

\* add_code(code)
AddCodeCall(code) ==
    /\ stage = "ready"
    /\ added < MaxAddCode
    /\ added' = added + 1
    /\ code_table' = AddCode(code_table, search_index, code).codes
    /\ search_index' = AddCode(code_table, search_index, code).search_index
    /\ UNCHANGED <<stage, request, response, terms, synonyms, abbreviations, pipeVars,
                   expandVars, formVars, fieldVars, callVars, bootVars>>

NextCodeStore ==
    \/ \E code \in AddedCodes : AddCodeCall(code)
    \/ \E query \in StoreQueries, system \in {Null, "ICD-10-CM"}, limit \in {5, 10} :
          SearchCodesCall(query, system, limit)
    \/ ReturnAnswer

SpecCodeStore == InitCodes /\ [][NextCodeStore]_vars

(***************************************************************************)
(* SpecStore: the Vocabulary Store of the service (the terminology manager  *)
(* and the code manager) under the document-processing and query            *)
(* operations, and under add_term, which is not one of them.                *)
(***************************************************************************)
InitStore ==
    /\ stage = "ready"
    /\ terms = InitialStore.terms
    /\ synonyms = InitialStore.synonyms
    /\ abbreviations = InitialStore.abbreviations
    /\ added = 0
    /\ code_table = InitialCodes.codes
    /\ search_index = InitialCodes.search_index
    /\ request = NoRequest
    /\ response = <<>>
    /\ NoPipeline /\ NoExpansion /\ NoForm /\ NoFields /\ NoCalls /\ Initialized

\* Phrases to normalize: a term, a synonym, an abbreviation, a custom term, a
\* fuzzy match and an unknown phrase.
NormalizedPhrases == {
    <<"Hypertension">>, <<"high", "blood", "pressure">>, <<"htn">>,
    <<"Sepsis">>, <<"blood", "pressure">>, <<"zzz">> }

\* terminology_manager.normalize_term(text)
NormalizeTermCall(phrase) ==
    /\ stage = "ready"
    /\ stage' = "answered"
    /\ request' = [op |-> "normalize_term", text |-> phrase]
    /\ response' = NormalizeTerm(terms, synonyms, abbreviations, phrase)
    /\ UNCHANGED <<code_table, search_index, vocabVars, pipeVars, expandVars, formVars,
                   fieldVars, callVars, bootVars>>

\* Tokens to expand: abbreviations of the store in every case, and a plain word.
ExpandedTokens ==
    {Token(w, c, <<>>, <<>>, <<".">>) :
        w \in {"htn", "dm", "blood"}, c \in {"upper", "lower"}}

\* terminology_manager.expand_abbreviations(text)
ExpandAbbreviationsCall(txt) ==
    /\ stage = "ready"
    /\ stage' = "answered"
    /\ request' = [op |-> "expand_abbreviations", text |-> txt]
    /\ response' = ExpandAbbreviations(abbreviations, txt)
    /\ UNCHANGED <<code_table, search_index, vocabVars, pipeVars, expandVars, formVars,
                   fieldVars, callVars, bootVars>>

\* The templates the repository's tests pass to auto_fill_form.
AutoFillTemplates == {
    <<TemplateField("patient_name", "demographics"),
      TemplateField("patient_age", "demographics"),
      TemplateField("blood_pressure", "vitals"),
      TemplateField("primary_diagnosis", "medical")>>,
    <<TemplateField("patient_name", "demographics"),
      TemplateField("patient_age", "demographics"),
      TemplateField("primary_diagnosis", "medical"),
      TemplateField("blood_pressure", "vitals"),
      TemplateField("current_medications", "medications"),
      TemplateField("insurance_number", "insurance")>> }

\* auto_fill_form(text, form_template): process_medical_document on the text,
\* then the form is filled from the form fields of the analysis.
AutoFillFormCall(cands, form_template) ==
    /\ stage = "ready"
    /\ stage' = "processed"
    /\ entities' = cands
    /\ normalized' = NormalizeEntities(cands)
    /\ enhanced' = EnhanceEntities(terms, synonyms, abbreviations, normalized')
    /\ request' = [op |-> "auto_fill_form", form_template |-> form_template]
    /\ response' = AutoFillForm(ExtractFormFields(enhanced'), form_template)
    /\ UNCHANGED <<code_table, search_index, vocabVars, expandVars, formVars,
                   fieldVars, callVars, bootVars>>

\* The documents of SpecStore: at most one terminology candidate.
StoreDocuments == CandidateLists({MainTermKind, SynonymKind}, 1)

NextStore ==
    \/ \E t \in CustomTerms : AddTerm(t)
    \/ \E cands \in StoreDocuments : ProcessMedicalDocument(cands)
    \/ \E cands \in StoreDocuments, form_template \in AutoFillTemplates :
          AutoFillFormCall(cands, form_template)
    \/ ReturnResult
    \/ \E phrase \in NormalizedPhrases : NormalizeTermCall(phrase)
    \/ \E txt \in SeqsUpTo(ExpandedTokens, 1) : ExpandAbbreviationsCall(txt)
    \/ NextCodes

SpecStore == InitStore /\ [][NextStore]_vars

(***************************************************************************)
(* SpecVocabulary: the terminology manager under add_term and its queries   *)
(* normalize_term, validate_medical_term and get_medical_codes.             *)
(***************************************************************************)
\* Phrases to look up: a term, a synonym, an abbreviation, the custom terms
\* in lower case, a synonym of a custom term, phrases that match by word
\* overlap only, and an unknown phrase.
LookedUpPhrases == {
    <<"Hypertension">>, <<"high", "blood", "pressure">>, <<"htn">>,
    <<"sepsis">>, <<"normal", "blood", "pressure">>, <<"120/80">>,
    <<"blood", "pressure">>, <<"zzz">> }

\* expected_category: not given, the category of a term, another one.
ExpectedCategories == {Null, "cardiovascular", "infection"}

\* terminology_manager.validate_medical_term(term, expected_category)
ValidateMedicalTermCall(phrase, expected_category) ==
    /\ stage = "ready"
    /\ stage' = "answered"
    /\ request' = [op |-> "validate_medical_term", term |-> phrase,
                   expected_category |-> expected_category]
    /\ response' = ValidateMedicalTerm(terms, synonyms, abbreviations, phrase,
                                       expected_category)
    /\ UNCHANGED <<code_table, search_index, vocabVars, pipeVars, expandVars, formVars,
                   fieldVars, callVars, bootVars>>

\* terminology_manager.get_medical_codes(term)
GetMedicalCodesCall(phrase) ==
    /\ stage = "ready"
    /\ stage' = "answered"
    /\ request' = [op |-> "get_medical_codes", term |-> phrase]
    /\ response' = GetMedicalCodes(terms, synonyms, abbreviations, phrase)
    /\ UNCHANGED <<code_table, search_index, vocabVars, pipeVars, expandVars, formVars,
                   fieldVars, callVars, bootVars>>

NextVocabulary ==
    \/ \E t \in CustomTerms : AddTerm(t)
    \/ \E phrase \in LookedUpPhrases : NormalizeTermCall(phrase)
    \/ \E phrase \in LookedUpPhrases, expected_category \in ExpectedCategories :
          ValidateMedicalTermCall(phrase, expected_category)
    \/ \E phrase \in LookedUpPhrases : GetMedicalCodesCall(phrase)
    \/ ReturnAnswer

SpecVocabulary == InitStore /\ [][NextVocabulary]_vars

(***************************************************************************)
(* SpecAutoFill: auto_fill_form on documents with entities of the labels   *)
(* that a form is filled from.                                             *)
(***************************************************************************)
MaxFormCands == 3   \* entities found in a document to fill a form from

FormKinds ==
    {SpacyEntityKind, AgeKind, BloodPressureKind, SynonymKind, MedicationKind,
     DosageKind}

\* Documents whose candidates follow each other without overlap.
FormDocuments ==
    UNION {{[i \in 1..k |-> MedicalEntity(i, kinds[i], <<i - 1, i>>)] :
                kinds \in [1..k -> FormKinds]} : k \in 0..MaxFormCands}

NextAutoFill ==
    \/ \E cands \in FormDocuments, form_template \in AutoFillTemplates :
          AutoFillFormCall(cands, form_template)
    \/ ReturnResult

SpecAutoFill == InitStore /\ [][NextAutoFill]_vars

(***************************************************************************)
(* Claims on the Entity Resolver and on entity confidence.                 *)
(***************************************************************************)

\* C1: the list _normalize_entities returns holds no two entities with
\* overlapping spans: for every pair, a.end <= b.start or b.end <= a.start.
C1_NoOverlap ==
    stage = "resolved" =>
        \A i, j \in 1..Len(normalized) :
            i # j => \/ normalized[i].end <= normalized[j].start
                     \/ normalized[j].end <= normalized[i].start

\* C1 witness: the resolver ran on candidates of which two overlapped, replaced
\* an accepted entity by a later one and still returned two entities.
C1_Witness ==
    /\ stage = "resolved"
    /\ Len(normalized) = 2
    /\ Len(entities) = 3
    /\ normalized[1].id > normalized[2].id
    /\ \E i, j \in 1..Len(entities) : i # j /\ Overlaps(entities[i], entities[j])

\* C2: every entity process_medical_document returns has a confidence in
\* [0, 1].
C2_ConfidenceInUnitInterval ==
    \A i \in 1..Len(enhanced) :
        enhanced[i].confidence >= 0 /\ enhanced[i].confidence <= 1000

(***************************************************************************)
(* Claims on abbreviation expansion.                                       *)
(***************************************************************************)

\* C3: abbreviation expansion is idempotent, for either expander and the
\* tables the code ships with: expand(expand(t)) = expand(t).
C3_Idempotent == stage = "reexpanded" => reexpanded = expanded

\* What C4 says one token becomes: a token whose word is a known abbreviation
\* becomes the words of its expansion, in the token's case pattern, with the
\* token's trailing punctuation after the last of them; any other token is
\* unchanged.
ClaimedTokens(table, tok, out) ==
    IF <<tok.word>> \in DOMAIN table
    THEN LET expansion == table[<<tok.word>>]
         IN  /\ Len(out) = Len(expansion)
             /\ \A i \in 1..Len(out) :
                    /\ out[i].word = CleanWord(expansion[i])
                    /\ out[i].case = ExpansionCase(tok)
             /\ out[Len(out)].post = tok.post
    ELSE out = <<tok>>

RECURSIVE ClaimedText(_, _, _)
ClaimedText(table, txt, out) ==
    IF txt = <<>> THEN out = <<>>
    ELSE LET n == IF <<Head(txt).word>> \in DOMAIN table
                  THEN Len(table[<<Head(txt).word>>]) ELSE 1
         IN  /\ Len(out) >= n
             /\ ClaimedTokens(table, Head(txt), SubSeq(out, 1, n))
             /\ ClaimedText(table, Tail(txt), SubSeq(out, n + 1, Len(out)))

\* C4: every token whose lower-cased, punctuation-stripped form is a known
\* abbreviation is replaced by its expansion in the token's case pattern,
\* keeping the token's trailing punctuation in place; every other token is
\* unchanged.
C4_ExpansionKeepsTrailingPunctuation ==
    stage \in {"expanded", "reexpanded"} =>
        ClaimedText(AbbreviationTable, text, expanded)

(***************************************************************************)
(* Claims on the form mapper.                                              *)
(***************************************************************************)

\* C5: map_to_form fails with an UnknownFormType error surfaced to its
\* caller whenever the form type is not a registered template.
C5_UnknownFormTypeSurfaced ==
    (stage = "mapped" /\ form_type \notin DOMAIN FormTemplates) =>
        form_result.outcome = "raised"

\* C6: for a registered template, missing_required is exactly the set of the
\* required template fields left unfilled, is_valid is false if and only if
\* missing_required is not empty, and with no extracted field every required
\* field is listed and is_valid is false.
C6_MissingRequiredAndValidity ==
    (stage = "mapped" /\ form_type \in DOMAIN FormTemplates) =>
        LET template == FormTemplates[form_type]
            missing == form_result.validation.missing_required
            unfilled == {template[i].name : i \in
                            {k \in 1..Len(template) :
                                /\ template[k].required
                                /\ form_result.mapped_fields[k].value = Null}}
            required == {template[i].name : i \in
                            {k \in 1..Len(template) : template[k].required}}
        IN  /\ Range(missing) = unfilled
            /\ Len(missing) = Cardinality(unfilled)
            /\ (form_result.validation.is_valid = FALSE) <=> (missing # <<>>)
            /\ extracted_fields = <<>> =>
                  /\ Range(missing) = required
                  /\ form_result.validation.is_valid = FALSE

\* C6 witness: patient_intake mapped from no extracted field lists its four
\* required fields and is not valid.
C6_Witness ==
    /\ stage = "mapped"
    /\ form_type = "patient_intake"
    /\ extracted_fields = <<>>
    /\ form_result.validation.missing_required =
          <<"patient_name", "date_of_birth", "insurance_id", "chief_complaint">>
    /\ form_result.validation.is_valid = FALSE

\* C7: for a registered template, completion_rate is the number of filled
\* fields over the number of template fields (0 for a template without
\* fields), lies in [0, 1] and is 1.0 if and only if every template field has
\* a non-null value.
C7_CompletionRate ==
    (stage = "mapped" /\ form_type \in DOMAIN FormTemplates) =>
        LET total == Len(FormTemplates[form_type])
            filled == Cardinality({i \in 1..Len(form_result.mapped_fields) :
                                      form_result.mapped_fields[i].value # Null})
            rate == form_result.completion_rate
        IN  /\ total = 0 => rate = 0
            /\ total > 0 => /\ rate * total <= filled * 1000
                            /\ filled * 1000 < (rate + 1) * total
            /\ rate >= 0 /\ rate <= 1000
            /\ (rate = 1000) <=>
                  \A i \in 1..Len(form_result.mapped_fields) :
                      form_result.mapped_fields[i].value # Null

\* C7 witness: one form completely filled, with more filled fields than
\* required ones.
C7_Witness ==
    /\ stage = "mapped"
    /\ form_type = "patient_intake"
    /\ form_result.completion_rate = 1000
    /\ form_result.fields_filled = 7

\* C8: the result has one mapped field for every field of the template and no
\* others; a template field takes the value and confidence of the first
\* extracted field whose name is identical to it or maps to it through the
\* alias table; a template field without such a field has value null,
\* confidence 0 and auto_filled false.
C8_MappedFields ==
    (stage = "mapped" /\ form_type \in DOMAIN FormTemplates) =>
        LET template == FormTemplates[form_type]
            mapped == form_result.mapped_fields
            Hits(f) == {k \in 1..Len(extracted_fields) :
                           \/ extracted_fields[k].name = f
                           \/ /\ extracted_fields[k].name \in DOMAIN FieldMappings
                              /\ f \in FieldMappings[extracted_fields[k].name]}
        IN  /\ Len(mapped) = Len(template)
            /\ \A i \in 1..Len(template) :
                  /\ mapped[i].name = template[i].name
                  /\ IF Hits(template[i].name) = {}
                     THEN /\ mapped[i].value = Null
                          /\ mapped[i].confidence = 0
                          /\ mapped[i].auto_filled = FALSE
                     ELSE LET first == CHOOSE k \in Hits(template[i].name) :
                                          \A j \in Hits(template[i].name) : k <= j
                          IN  /\ mapped[i].value = extracted_fields[first].value
                              /\ mapped[i].confidence = extracted_fields[first].confidence

\* C8 witness: a form with a field filled at the highest confidence, a field
\* left empty, and an extracted field that no template field takes.
C8_Witness ==
    /\ stage = "mapped"
    /\ form_type = "discharge_summary"
    /\ \E i \in 1..Len(form_result.mapped_fields) :
          /\ form_result.mapped_fields[i].auto_filled
          /\ form_result.mapped_fields[i].confidence = MaxFieldConfidence
    /\ \E i \in 1..Len(form_result.mapped_fields) :
          ~form_result.mapped_fields[i].auto_filled
    /\ \E k \in 1..Len(extracted_fields) : extracted_fields[k].name = "age"

(***************************************************************************)
(* Claims on the pattern extractor.                                        *)
(***************************************************************************)

\* The confidences of the matches of a requested label that the predicate
\* Counts admits.
ScoresOf(field_type, Counts(_)) ==
    IF field_type \in DOMAIN FieldPatterns
    THEN {CalculateFieldConfidence(matches[field_type][i],
                                   FieldPatterns[field_type][matches[field_type][i].pattern],
                                   DocumentLength) :
             i \in {k \in 1..Len(matches[field_type]) : Counts(matches[field_type][k])}}
    ELSE {}

\* Best of N over the candidates that Counts admits: a label with candidates
\* has exactly one entry in the result, with the highest of their
\* confidences; a label without any is absent; the call returns.
BestOfN(Counts(_)) ==
    /\ extraction.outcome = "returned"
    /\ \A t \in Range(field_types) :
          LET entries == {i \in 1..Len(extraction.extracted_fields) :
                             extraction.extracted_fields[i].name = t}
              scores == ScoresOf(t, Counts)
          IN  IF scores = {} THEN entries = {}
              ELSE /\ Cardinality(entries) = 1
                   /\ \A i \in entries :
                         /\ extraction.extracted_fields[i].confidence \in scores
                         /\ \A c \in scores :
                               c <= extraction.extracted_fields[i].confidence

AnyMatch(m) == TRUE
NonEmptyMatch(m) == m.value # ""

\* C9 as stated: for each requested label, all matches of all of the label's
\* patterns are scored and exactly one is retained, with the highest
\* confidence of all; a label with no match or no pattern is absent from the
\* result, without error.
C9_BestOfAllMatches == stage = "extracted" => BestOfN(AnyMatch)

\* C9 as the code has it: for each requested label, the matches whose cleaned
\* value is not empty are scored and exactly one of them is retained, with the
\* highest confidence among them; a label with no such match, or no pattern,
\* is absent from the result, without error.
C9_BestOfNonEmptyMatches == stage = "extracted" => BestOfN(NonEmptyMatch)

\* C9 witness: a label with a match of empty value, which is passed over, and
\* two scored matches of which the later has the higher confidence and is the
\* one retained, next to a requested label that is absent.
C9_Witness ==
    /\ stage = "extracted"
    /\ Len(field_types) = 2
    /\ Len(extraction.extracted_fields) = 1
    /\ LET e == extraction.extracted_fields[1]
           found == matches[e.name]
       IN  /\ Len(found) = 3
           /\ found[1].value = "" /\ found[2].value # "" /\ found[3].value # ""
           /\ found[2].pattern # found[3].pattern
           /\ e.start_pos = found[3].start
           /\ e.pattern_used = FieldPatterns[e.name][found[3].pattern].regex
           /\ e.confidence >
                 CalculateFieldConfidence(found[2],
                     FieldPatterns[e.name][found[2].pattern], DocumentLength)

\* The patterns of field_patterns that have no label before the value.
UnlabelledPatterns ==
    { <<"patient_name", 3>>, <<"age", 2>>, <<"age", 3>>, <<"allergies", 3>>,
      <<"blood_pressure", 3>>, <<"temperature", 3>>, <<"weight", 3>>,
      <<"height", 3>> }

\* C10: the confidence of a match is 0.8, plus 0.1 if the pattern has an
\* explicit label delimiter, plus 0.1 for the prefixes Patient: and Name:,
\* minus 0.2 if the match is shorter than 3 characters, plus 0.05 if the match
\* starts in the first 20% of the document, clamped to [0.1, 1.0].
C10_ConfidenceScore ==
    stage = "extracted" =>
        \A i \in 1..Len(extraction.extracted_fields) :
            LET e == extraction.extracted_fields[i]
                p == CHOOSE k \in 1..Len(FieldPatterns[e.name]) :
                         FieldPatterns[e.name][k].regex = e.pattern_used
                score == 800
                         + (IF <<e.name, p>> \notin UnlabelledPatterns THEN 100 ELSE 0)
                         + (IF p <= 2 /\ e.name = "patient_name" THEN 100 ELSE 0)
                         - (IF e.end_pos - e.start_pos < 3 THEN 200 ELSE 0)
                         + (IF 5 * e.start_pos < DocumentLength THEN 50 ELSE 0)
            IN  e.confidence = Min(1000, Max(100, score))

(***************************************************************************)
(* Claims on the Terminology Matcher.                                      *)
(***************************************************************************)

\* The occurrences in the text of the phrases of the vocabulary: category,
\* canonical term, phrase, offset and the confidence C11 gives the match.
VocabularyOccurrences ==
    UNION {UNION {UNION {
        {[category |-> EngineTerminology[c].category,
          main_term |-> EngineTerminology[c].terms[t].main_term,
          phrase |-> p, start |-> o,
          confidence |-> IF p = EngineTerminology[c].terms[t].main_term
                         THEN 850 ELSE 800] :
            o \in Occurrences(p, text)} :
        p \in {EngineTerminology[c].terms[t].main_term}
                \cup Range(EngineTerminology[c].terms[t].synonyms)} :
        t \in 1..Len(EngineTerminology[c].terms)} :
        c \in 1..Len(EngineTerminology)}

\* C11: the Terminology Matcher yields one entity for each occurrence in the
\* text of a canonical term or of one of its synonyms, labeled by the term's
\* category, with normalized_form the canonical name and confidence 0.85 for
\* a canonical match and 0.80 for a synonym match; on a text with no known
\* term it returns an empty list.
C11_OneEntityPerOccurrence ==
    stage = "matched" =>
        /\ Len(entities) = Cardinality(VocabularyOccurrences)
        /\ \A occ \in VocabularyOccurrences :
              \E i \in 1..Len(entities) :
                  /\ entities[i].start = occ.start
                  /\ entities[i].end = occ.start + PhraseLength(occ.phrase)
                  /\ entities[i].label = CategoryLabel(occ.category)
                  /\ entities[i].normalized_form = occ.main_term
                  /\ entities[i].confidence = occ.confidence

(***************************************************************************)
(* Claims on the code manager.                                             *)
(***************************************************************************)

\* The confidences of the matches of a code for a query: 1.0 for an indexed
\* term equal to the query, len(query) / len(term) for an indexed term that
\* properly contains it.
MatchConfidences(system, code, query_lower) ==
    {IF search_index[i].term = query_lower THEN 1000
     ELSE (Len(query_lower) * 1000) \div Len(search_index[i].term) :
        i \in {k \in 1..Len(search_index) :
                  /\ Contains(search_index[k].term, query_lower)
                  /\ \E j \in 1..Len(search_index[k].codes) :
                        search_index[k].codes[j] = <<system, code>>}}

\* C12: search_codes gives a code with an indexed term equal to the query
\* confidence 1.0 and match_type exact, a code with an indexed term properly
\* containing the query confidence len(query) / len(term) and match_type
\* partial, and returns at most one entry per (system, code), the one of the
\* highest confidence among the code's matches.
C12_SearchMatches ==
    (stage = "answered" /\ request.op = "search_codes") =>
        LET query_lower == LowerChars(request.query)
            Passes(c) == request.system = Null \/ request.system = c.system
            found == {i \in 1..Len(code_table) :
                         /\ Passes(code_table[i])
                         /\ MatchConfidences(code_table[i].system, code_table[i].code,
                                             query_lower) # {}}
        IN  /\ \A i, j \in 1..Len(response) :
                  (response[i].system = response[j].system
                   /\ response[i].code = response[j].code) => i = j
            /\ \A i \in 1..Len(response) :
                  LET confs == MatchConfidences(response[i].system, response[i].code,
                                                query_lower)
                  IN  /\ response[i].confidence \in confs
                      /\ \A c \in confs : c <= response[i].confidence
                      /\ response[i].match_type =
                            IF 1000 \in confs THEN "exact" ELSE "partial"
                      /\ Passes(response[i])
            /\ Len(response) = Min(request.limit, Cardinality(found))
            /\ LET exact == {i \in found :
                                1000 \in MatchConfidences(code_table[i].system,
                                                          code_table[i].code, query_lower)}
               IN  Cardinality(exact) <= request.limit =>
                      \A i \in exact : \E j \in 1..Len(response) :
                          /\ response[j].system = code_table[i].system
                          /\ response[j].code = code_table[i].code
                          /\ response[j].confidence = 1000

\* C12 witness: a code found through several partial matches, of which a
\* later one has the highest confidence, returned once, with that confidence.
C12_Witness ==
    /\ stage = "answered"
    /\ request.op = "search_codes"
    /\ request.query = <<"b","l","o","o","d">>
    /\ \E i \in 1..Len(response) :
          /\ response[i].code = "85025"
          /\ response[i].match_type = "partial"
          /\ response[i].confidence = (5 * 1000) \div 11
          /\ Cardinality(MatchConfidences("CPT", "85025", request.query)) >= 3

\* C13: the list search_codes returns is sorted by non-increasing confidence,
\* has at most `limit` entries and, with a system filter, holds only codes of
\* that system.
C13_SortedLimitedFiltered ==
    (stage = "answered" /\ request.op = "search_codes") =>
        /\ \A i \in 1..(Len(response) - 1) :
              response[i].confidence >= response[i + 1].confidence
        /\ Len(response) <= request.limit
        /\ request.system # Null =>
              \A i \in 1..Len(response) : response[i].system = request.system

\* C13 witness: a filtered search with more matching codes than the limit,
\* answered with `limit` entries of falling confidence.
C13_Witness ==
    /\ stage = "answered"
    /\ request.op = "search_codes"
    /\ request.system = "CPT"
    /\ request.limit = 3
    /\ Len(response) = 3
    /\ response[1].confidence > response[3].confidence
    /\ Cardinality({i \in 1..Len(code_table) :
                      /\ code_table[i].system = "CPT"
                      /\ MatchConfidences("CPT", code_table[i].code,
                                          LowerChars(request.query)) # {}}) > 3

\* The codes of which the query is an indexed synonym.
SynonymCodes(query_lower) ==
    {i \in 1..Len(code_table) :
        \E k \in 1..Len(code_table[i].synonyms) :
            LowerChars(code_table[i].synonyms[k]) = query_lower}

\* C14: when the query is an indexed synonym of a code, search_codes ranks
\* that code first, with match_type exact and confidence 1.0, ahead of every
\* code that matches only partially; with the built-in codes,
\* search_codes("hypertension") returns ICD-10-CM code I10 first.
C14_SynonymRankedFirst ==
    (stage = "answered" /\ request.op = "search_codes") =>
        LET query_lower == LowerChars(request.query)
        IN  /\ \A c \in SynonymCodes(query_lower) :
                  (request.system = Null \/ request.system = code_table[c].system) =>
                      /\ Len(response) >= 1
                      /\ response[1].code = code_table[c].code
                      /\ response[1].system = code_table[c].system
                      /\ response[1].match_type = "exact"
                      /\ response[1].confidence = 1000
                      /\ \A j \in 2..Len(response) :
                            response[j].match_type = "partial"
            /\ (request.query = <<"h","y","p","e","r","t","e","n","s","i","o","n">>
                /\ request.system \in {Null, "ICD-10-CM"}) =>
                  /\ Len(response) >= 1
                  /\ response[1].code = "I10"
                  /\ response[1].system = "ICD-10-CM"

\* C14 witness: the search for mi, a synonym of I21.9, is answered with that
\* code as an exact match, ahead of a partial one.
C14_Witness ==
    /\ stage = "answered"
    /\ request.op = "search_codes"
    /\ request.query = <<"m","i">>
    /\ request.system = Null
    /\ response[1].code = "I21.9"
    /\ response[1].match_type = "exact"
    /\ Len(response) >= 2
    /\ response[2].match_type = "partial"

\* What the searches of suggest_codes_for_text offer for the request: triples
\* of system, code and weighted confidence, from the search of the whole text
\* (weight 1.0), of each word longer than three characters (0.7) and, with a
\* context, of the context (0.6).
Offered ==
    LET Offers(results, tenths) ==
            {<<results[i].system, results[i].code, (results[i].confidence * tenths) \div 10>> :
                i \in 1..Len(results)}
        words == {w \in Range(Words(LowerChars(request.text))) : Len(w) > 3}
    IN  Offers(SearchCodes(code_table, search_index, request.text, Null, 5), 10)
        \cup UNION {Offers(SearchCodes(code_table, search_index, w, Null, 2), 7) : w \in words}
        \cup (IF request.context = <<>> THEN {}
              ELSE Offers(SearchCodes(code_table, search_index, request.context, Null, 3), 6))

\* C15: suggest_codes_for_text returns at most 10 suggestions sorted by
\* non-increasing confidence, at most one per code key, each with the maximum
\* of the confidences offered for its code by the direct search (weight 1.0),
\* the searches of the words longer than 3 characters (x 0.7) and, with a
\* context, the context search (x 0.6); the codes left out are offered no
\* more than the last one returned.
C15_SuggestionsRanked ==
    (stage = "answered" /\ request.op = "suggest_codes_for_text") =>
        LET offered == Offered
            keys == {<<o[1], o[2]>> : o \in offered}
            Best(k) == CHOOSE c \in {o[3] : o \in {x \in offered : <<x[1], x[2]>> = k}} :
                           \A o \in offered : <<o[1], o[2]>> = k => o[3] <= c
            Key(i) == <<response[i].system, response[i].code>>
        IN  /\ Len(response) = Min(10, Cardinality(keys))
            /\ \A i \in 1..(Len(response) - 1) :
                  response[i].confidence >= response[i + 1].confidence
            /\ \A i, j \in 1..Len(response) : Key(i) = Key(j) => i = j
            /\ \A i \in 1..Len(response) :
                  /\ Key(i) \in keys
                  /\ response[i].confidence = Best(Key(i))
            /\ \A k \in keys :
                  (\A i \in 1..Len(response) : Key(i) # k) =>
                      Best(k) <= response[Len(response)].confidence

\* C15 witness: more than ten codes are offered and ten are suggested; the
\* code offered by a word of the text at 0.7 and by the context at 0.6 is
\* suggested once, at 0.7, ahead of a code of lower confidence, and a word of
\* two characters has offered nothing.
C15_Witness ==
    /\ stage = "answered"
    /\ request.op = "suggest_codes_for_text"
    /\ request.context # <<>>
    /\ \E w \in Range(Words(LowerChars(request.text))) : Len(w) <= 3
    /\ Len(response) = 10
    /\ Cardinality({<<o[1], o[2]>> : o \in Offered}) > 10
    /\ response[1].code = "E11.9"
    /\ response[1].confidence = 700
    /\ response[1].match_type = "word_match"
    /\ <<"ICD-10-CM", "E11.9", 600>> \in Offered
    /\ response[2].confidence < 700

\* C16: cross_map_codes returns an empty list when the code is not in the
\* source system; otherwise every returned match is a code of the target
\* system that the search of the target system for the source code's
\* description or for one of its synonyms returns, and its mapping confidence
\* is 0.8 times its search confidence.
C16_CrossMap ==
    (stage = "answered" /\ request.op = "cross_map_codes") =>
        LET at == {i \in 1..Len(code_table) :
                      /\ code_table[i].system = request.source_system
                      /\ code_table[i].code = request.code}
        IN  IF at = {} THEN response = <<>>
            ELSE LET source == code_table[CHOOSE i \in at : TRUE]
                     Found(phrase, limit) ==
                         Range(SearchCodes(code_table, search_index, phrase,
                                           request.target_system, limit))
                     found == Found(source.description, 5)
                              \cup UNION {Found(source.synonyms[k], 3) :
                                             k \in 1..Len(source.synonyms)}
                 IN  \A i \in 1..Len(response) :
                         /\ response[i].system = request.target_system
                         /\ \E c \in 1..Len(code_table) :
                               /\ code_table[c].system = request.target_system
                               /\ code_table[c].code = response[i].code
                         /\ \E r \in found :
                               /\ r.code = response[i].code
                               /\ r.confidence = response[i].confidence
                         /\ response[i].mapping_confidence * 10 <= response[i].confidence * 8
                         /\ response[i].mapping_confidence * 10 > response[i].confidence * 8 - 10

\* C16 witness: a code of ICD-10-CM is mapped to three codes of CPT, found
\* through a synonym, each at 0.8 times a search confidence below 1.0.
C16_Witness ==
    /\ stage = "answered"
    /\ request.op = "cross_map_codes"
    /\ request.code = "I21.9"
    /\ request.source_system = "ICD-10-CM"
    /\ request.target_system = "CPT"
    /\ Len(response) = 3
    /\ response[1].code = "76700"
    /\ response[1].confidence = 166
    /\ response[1].mapping_confidence = 132

\* C16 second case: a code that the source system does not have is mapped to
\* nothing, whatever the target.
C16_UnknownCodeWitness ==
    /\ stage = "answered"
    /\ request.op = "cross_map_codes"
    /\ request.code = "99213"
    /\ request.source_system = "ICD-10-CM"
    /\ request.target_system = "CPT"
    /\ response = <<>>

\* The candidate list of a call after its extractors, given what each
\* contributes, and a list without the objects' identities.
CandidatesOf(spacy, pattern, terminology) ==
    AppendFound(AppendFound(AppendFound(<<>>, spacy), pattern), terminology)

Content(list) ==
    [i \in 1..Len(list) |->
        [text |-> list[i].text, label |-> list[i].label, start |-> list[i].start,
         end |-> list[i].end, confidence |-> list[i].confidence,
         normalized_form |-> list[i].normalized_form]]

\* C17: a document-processing call never fails because one extractor is
\* absent or fails: when the adapter is absent or an extractor raises, that
\* extractor contributes an empty list, and the entities of the remaining
\* extractors are resolved and returned.
C17_FailedExtractorContributesNothing ==
    \A c \in CallIds :
        calls[c].pc \in {"finished", "returned"} =>
            LET doc == calls[c].doc
                spacy == IF adapter = "loaded" /\ calls[c].outcome = "returned"
                         THEN doc.ner \o doc.matcher
                         ELSE <<>>
                candidates == CandidatesOf(spacy, doc.pattern, doc.terminology)
            IN  /\ Content(calls[c].entities) = Content(SortByStart(candidates))
                /\ Content(calls[c].result) = Content(NormalizeEntities(candidates))

\* C18: an adapter call that does not return within a bounded time is treated
\* as adapter failure: every call that was submitted eventually returns.
C18_CallEventuallyReturns ==
    \A c \in CallIds : (calls[c].pc = "queued") ~> (calls[c].pc = "returned")

\* C20: two calls running concurrently on the shared engine share no
\* intermediate state: at every point of every interleaving, each call's
\* candidate list, resolver working set and result are those of the call
\* running alone on its document with the same outcome of its adapter call.
C20_CallsIndependent ==
    \A c \in CallIds :
        LET doc == calls[c].doc
            spacy == IF adapter = "loaded" THEN SpacyEntities(doc, calls[c].outcome)
                     ELSE <<>>
            pc == calls[c].pc
        IN  /\ pc \in {"idle", "queued", "spacy", "in_adapter"} =>
                  calls[c].entities = <<>> /\ calls[c].result = <<>>
            /\ pc = "pattern" =>
                  calls[c].entities = CandidatesOf(spacy, <<>>, <<>>)
            /\ pc = "terminology" =>
                  calls[c].entities = CandidatesOf(spacy, doc.pattern, <<>>)
            /\ pc = "normalize" =>
                  calls[c].entities = CandidatesOf(spacy, doc.pattern, doc.terminology)
            /\ pc \in {"finished", "returned"} =>
                  LET candidates == CandidatesOf(spacy, doc.pattern, doc.terminology)
                  IN  /\ calls[c].entities = SortByStart(candidates)
                      /\ calls[c].result = NormalizeEntities(candidates)

\* C20 witness: two calls on different documents are in workers at the same
\* time, each with its own candidates, and one of them has finished with a
\* result that dropped an overlapping candidate.
C20_Witness ==
    /\ calls[1].pc = "finished"
    /\ calls[2].pc = "terminology"
    /\ calls[1].doc # calls[2].doc
    /\ calls[2].entities # <<>>
    /\ calls[1].result # <<>>
    /\ Len(calls[1].result) < Len(calls[1].entities)

\* A step that is a document-processing or query operation: a call taken in
\* the state "ready" (add_term leaves the state "ready").
QueryStep == stage = "ready" /\ stage' \in {"answered", "processed"}

\* C19: no document-processing or query operation changes the Vocabulary
\* Store: terms, synonyms, abbreviations, the codes and the search index are
\* the same after the step as before it.
C19_StoreUnchanged ==
    [][QueryStep => UNCHANGED <<terms, synonyms, abbreviations, code_table, search_index>>]_vars

\* C19 witness: after a term was added, a search under a key that the index
\* does not have is answered, and the index still has no such key and the 97
\* terms it was built with.
C19_Witness ==
    /\ stage = "answered"
    /\ request.op = "search_codes"
    /\ request.query = <<"b","l","o","o","d">>
    /\ response # <<>>
    /\ added = 1
    /\ \A i \in 1..Len(search_index) : search_index[i].term # request.query
    /\ search_index = InitialCodes.search_index
    /\ code_table = InitialCodes.codes

(***************************************************************************)
(* Claims on the course of the Entity Resolver.                            *)
(***************************************************************************)

\* What the resolver has accepted after the first k candidates of the sorted
\* list.
Accepted(k) == ResolveLoop(SubSeq(entities, 1, k), <<>>)

\* C21: the resolver takes the candidates in ascending span-start order; a
\* candidate that overlaps no accepted entity is accepted unmodified; one that
\* overlaps an accepted entity replaces it if its confidence is higher and is
\* dropped otherwise, the accepted entity staying.
C21_ResolverSteps ==
    stage = "resolved" =>
        /\ \A i \in 1..(Len(entities) - 1) :
               entities[i].start <= entities[i + 1].start
        /\ normalized = Accepted(Len(entities))
        /\ \A k \in 1..Len(entities) :
               LET candidate == entities[k]
                   before == Range(Accepted(k - 1))
                   after == Range(Accepted(k))
                   hit == {a \in before : Overlaps(candidate, a)}
               IN  IF hit = {} THEN after = before \cup {candidate}
                   ELSE \E a \in hit :
                          IF candidate.confidence > a.confidence
                          THEN after = (before \ {a}) \cup {candidate}
                          ELSE after = before

\* C21 witness: of three candidates the first was accepted without overlap,
\* the second replaced it with a higher confidence, and the third, of the same
\* confidence as the second and overlapping it, was dropped.
C21_Witness ==
    /\ stage = "resolved"
    /\ Len(entities) = 3
    /\ Accepted(1) = <<entities[1]>>
    /\ Overlaps(entities[2], entities[1])
    /\ entities[2].confidence > entities[1].confidence
    /\ Accepted(2) = <<entities[2]>>
    /\ Overlaps(entities[3], entities[2])
    /\ entities[3].confidence = entities[2].confidence
    /\ normalized = <<entities[2]>>

\* The candidate list as it was handed to the resolver (the call sorts it in
\* place; an object's identity is its place in the list handed over), and the
\* same candidates in the same order as other objects.
Original ==
    [i \in 1..Len(entities) |-> CHOOSE e \in Range(entities) : e.id = i]

Identities(n) == {f \in [1..n -> 1..n] : \A i, j \in 1..n : f[i] = f[j] => i = j}

Reidentified(list, identity) ==
    [i \in 1..Len(list) |-> [list[i] EXCEPT !.id = identity[i]]]

ExactMatch(e) ==
    \/ TermIndex(terms, Lower(e.text)) # 0
    \/ Lower(e.text) \in DOMAIN synonyms

\* C23: the boost is applied after overlap resolution and only to an entity
\* whose text exactly matches a canonical term or a synonym: its confidence
\* becomes min(1.0, 1.1 x confidence), every other confidence is unchanged,
\* and the entities are those the resolver chose on the unboosted
\* confidences.
C23_BoostOnlyOnExactMatch ==
    stage = "processed" =>
        /\ normalized = NormalizeEntities(entities)
        /\ Len(enhanced) = Len(normalized)
        /\ \A i \in 1..Len(enhanced) :
               /\ enhanced[i].id = normalized[i].id
               /\ enhanced[i].confidence =
                      IF ExactMatch(normalized[i])
                      THEN Min(1000, (normalized[i].confidence * 11) \div 10)
                      ELSE normalized[i].confidence

(***************************************************************************)
(* Claims on entity spans.                                                 *)
(***************************************************************************)

\* C24: every entity of the terminology extractor has a span inside the
\* normalized text it was given: 0 <= start < end <= len(normalized_text).
C24_SpanInsideText ==
    stage = "matched" =>
        \A i \in 1..Len(entities) :
            /\ 0 <= entities[i].start
            /\ entities[i].start < entities[i].end
            /\ entities[i].end <= PhraseLength(text)

(***************************************************************************)
(* Claims on auto_fill_form.                                               *)
(***************************************************************************)

\* The labels of the entities a template field is filled from.
FieldLabels(field_name) ==
    CASE field_name = "patient_name" -> {"PATIENT_NAME"}
      [] field_name = "patient_age" -> {"AGE"}
      [] field_name = "blood_pressure" -> {"BLOOD_PRESSURE"}
      [] field_name = "primary_diagnosis" -> {"CONDITIONS", "DIAGNOSIS"}
      [] OTHER -> {}

\* C25: auto_fill_form fills patient_name, patient_age, blood_pressure and
\* primary_diagnosis from the corresponding extracted entity whenever there
\* is one, with the entity's text and confidence and auto_filled = true; the
\* field stays unfilled only when no such entity was extracted.
C25_TemplateFieldsFilled ==
    (stage = "processed" /\ request.op = "auto_fill_form") =>
        \A i \in 1..Len(response.filled_form) :
            LET field == response.filled_form[i]
                from == {k \in 1..Len(enhanced) :
                            enhanced[k].label \in FieldLabels(field.name)}
            IN  FieldLabels(field.name) # {} =>
                    IF from = {} THEN ~field.auto_filled
                    ELSE /\ field.auto_filled
                         /\ \E k \in from :
                               /\ field.value = enhanced[k].text
                               /\ field.confidence = enhanced[k].confidence

(***************************************************************************)
(* Claims on what the Entity Resolver discards and on the order of its     *)
(* output.                                                                 *)
(***************************************************************************)

\* C26: every candidate the resolver discards overlaps an entity of its
\* output whose confidence is at least the candidate's.
C26_DiscardedIsCovered ==
    stage = "resolved" =>
        \A i \in 1..Len(entities) :
            entities[i] \notin Range(normalized) =>
                \E j \in 1..Len(normalized) :
                    /\ Overlaps(entities[i], normalized[j])
                    /\ normalized[j].confidence >= entities[i].confidence

\* The entities of the result of process_medical_document for the resolver's
\* output, with the vocabulary the service starts with, and the diagnosis
\* entities among them.
Enhanced ==
    EnhanceEntities(InitialStore.terms, InitialStore.synonyms,
                    InitialStore.abbreviations, normalized)

Diagnoses == {k \in 1..Len(Enhanced) : Enhanced[k].label \in {"CONDITIONS", "DIAGNOSIS"}}

\* C27: the resolver's output is in ascending span-start order (the spans of
\* the candidates are not empty), so that the diagnosis _extract_form_fields
\* takes as primary_diagnosis is the one that starts first in the text.
C27_OutputInStartOrder ==
    stage = "resolved" =>
        /\ \A i, j \in 1..Len(normalized) :
               i < j => normalized[i].start < normalized[j].start
        /\ Diagnoses # {} =>
               \E k \in Diagnoses :
                   /\ \A j \in Diagnoses : Enhanced[k].start <= Enhanced[j].start
                   /\ ExtractFormFields(Enhanced).medical_history["primary_diagnosis"]
                         = FieldData(Enhanced[k].normalized_form, Enhanced[k].confidence)

\* C27 witness: the third candidate replaced the second, the first stayed, and
\* the output holds two diagnoses of different canonical names, the first of
\* which is the primary diagnosis.
C27_Witness ==
    /\ stage = "resolved"
    /\ Len(entities) = 3
    /\ Accepted(2) = <<entities[1], entities[2]>>
    /\ normalized = <<entities[1], entities[3]>>
    /\ Diagnoses = {1, 2}
    /\ Enhanced[1].normalized_form # Enhanced[2].normalized_form
    /\ ExtractFormFields(Enhanced).medical_history["primary_diagnosis"].value
          = Enhanced[1].normalized_form

(***************************************************************************)
(* Claims on initialization.                                               *)
(***************************************************************************)

\* C28: no call reads the abbreviation, terminology or code dictionaries
\* before _initialize_engine has loaded them: whatever a call has read, it
\* was the loaded dictionary and never the empty one of __init__.
C28_NoReadBeforeLoaded ==
    \A c \in DOMAIN requests :
        /\ requests[c].read.abbreviations # "empty"
        /\ requests[c].read.medical_terminology # "empty"
        /\ requests[c].read.medical_codes # "empty"

\* C29: after any sequence of add_code calls, every code that search_codes
\* returns for a query has, in the store as it is now, a lower-cased
\* description or a synonym that contains the lower-cased query.
C29_NoStaleSearchTerm ==
    (stage = "answered" /\ request.op = "search_codes") =>
        \A i \in 1..Len(response) :
            LET code_obj == LookupCode(code_table, response[i].code, response[i].system)
                current == SearchTerms(code_obj)
            IN  \E k \in 1..Len(current) : Contains(current[k], LowerChars(request.query))

\* C30: after any sequence of add_term calls, a term that normalize_term
\* answers is a key of self.terms, validate_medical_term never answers
\* 'Validation error', and get_medical_codes answers codes for a phrase that
\* normalize_term recognises as a term with codes.
C30_NormalizedIsKey ==
    stage = "answered" =>
        /\ request.op = "normalize_term" =>
              (response # NoTerm => TermIndex(terms, response) # 0)
        /\ request.op = "validate_medical_term" =>
              (response.is_valid \/ response.message # "Validation error")
        /\ request.op = "get_medical_codes" =>
              LET normalized_term == NormalizeTerm(terms, synonyms, abbreviations,
                                                   request.term)
                  i == TermIndex(terms, Lower(normalized_term))
              IN  (normalized_term # NoTerm /\ i # 0 /\ terms[i].codes # <<>>)
                      => response # <<>>

=============================================================================
